---- MODULE Spec2Model ----
(***************************************************************************)
(* Model of the link-aware search backend: the text normaliser, the        *)
(* row search (SearchService.search_rows / backend.search_rows), the       *)
(* workbook indexer (IndexService.build_index / backend.index_sources)     *)
(* and the handlers that publish and read the process-wide index.          *)
(*                                                                         *)
(* A string is a sequence of one-character strings.                        *)
(***************************************************************************)
EXTENDS Integers, Sequences, FiniteSets, TLC

(***************************************************************************)
(* Generic helpers on sequences.                                           *)
(***************************************************************************)
Range(s) == {s[i] : i \in DOMAIN s}

Max2(a, b) == IF a >= b THEN a ELSE b

Min2(a, b) == IF a <= b THEN a ELSE b

RECURSIVE Flatten(_)
Flatten(ss) == IF ss = <<>> THEN <<>> ELSE Head(ss) \o Flatten(Tail(ss))

\* All sequences over S of length 0..n.
SeqsUpTo(S, n) == UNION {[1..k -> S] : k \in 0..n}

\* s[a..b] with Python slice clipping, 1-based inclusive.
Slice(s, a, b) == IF a > b THEN <<>> ELSE SubSeq(s, a, b)

\* Python's "needle in hay" on strings.
Contains(hay, needle) ==
    \E i \in 0..(Len(hay) - Len(needle)) :
        \A j \in 1..Len(needle) : hay[i + j] = needle[j]

(***************************************************************************)
(* utils/text_processing.py                                                *)
(*                                                                         *)
(* The character universe of the model: plain letters, Vietnamese letters  *)
(* with a diacritic, upper-case letters, the stroked d, the combining      *)
(* breve, blanks (space, tab, no-break space, en space), the zero-width    *)
(* space and a punctuation sign.  None of them is a mojibake signature     *)
(* (_MOJIBAKE_SIGNS), so ftfy and the two re-decoding steps of             *)
(* fix_vietnamese_text leave every model string as it is.                  *)
(***************************************************************************)
TAB == "\t"

NBSP == "nbsp"

ZWSP == "zwsp"

BREVE == "breve"

\* U+2002 EN SPACE: white space to str.strip, outside the class [ \t], and
\* decomposed to a plain space by the compatibility normalisation.
ENSP == "ensp"

\* unicodedata.normalize("NFC", .) on the universe: a + breve composes.
RECURSIVE NFC(_)
NFC(s) ==
    IF Len(s) < 2 THEN s
    ELSE IF s[1] = "a" /\ s[2] = BREVE THEN <<"abreve">> \o NFC(Tail(Tail(s)))
    ELSE IF s[1] = "A" /\ s[2] = BREVE THEN <<"Abreve">> \o NFC(Tail(Tail(s)))
    ELSE <<s[1]>> \o NFC(Tail(s))

\* unicodedata.normalize("NFKD", .) of one character.
NFKDChar(c) ==
    CASE c = "abreve" -> <<"a", BREVE>>
      [] c = "Abreve" -> <<"A", BREVE>>
      [] c = NBSP -> <<" ">>
      [] c = ENSP -> <<" ">>
      [] OTHER -> <<c>>

NFKD(s) == Flatten([i \in DOMAIN s |-> NFKDChar(s[i])])

\* unicodedata.combining(ch) != 0
combining(c) == c = BREVE

\* str.lower() of one character.
LowerChar(c) ==
    CASE c = "A" -> "a"
      [] c = "Abreve" -> "abreve"
      [] c = "N" -> "n"
      [] c = "Dstroke" -> "dstroke"
      [] c = "D" -> "d"
      [] OTHER -> c

lower(s) == [i \in DOMAIN s |-> LowerChar(s[i])]

\* Characters str.strip() removes.
IsSpace(c) == c \in {" ", TAB, NBSP, ENSP, "\n"}

RECURSIVE lstrip(_)
lstrip(s) == IF s # <<>> /\ IsSpace(s[1]) THEN lstrip(Tail(s)) ELSE s

RECURSIVE rstrip(_)
rstrip(s) ==
    IF s # <<>> /\ IsSpace(s[Len(s)]) THEN rstrip(SubSeq(s, 1, Len(s) - 1)) ELSE s

strip(s) == rstrip(lstrip(s))

\* re.sub(r"[ \t]+", " ", s)
RECURSIVE CollapseBlanks(_)
CollapseBlanks(s) ==
    IF s = <<>> THEN <<>>
    ELSE IF s[1] \in {" ", TAB}
         THEN IF Len(s) >= 2 /\ s[2] \in {" ", TAB}
              THEN CollapseBlanks(<<" ">> \o Tail(Tail(s)))
              ELSE <<" ">> \o CollapseBlanks(Tail(s))
         ELSE <<s[1]>> \o CollapseBlanks(Tail(s))

\* re.sub(r"\n{3,}", "\n\n", s)
RECURSIVE CollapseNewlines(_)
CollapseNewlines(s) ==
    IF Len(s) >= 3 /\ s[1] = "\n" /\ s[2] = "\n" /\ s[3] = "\n"
    THEN CollapseNewlines(Tail(s))
    ELSE IF s = <<>> THEN <<>> ELSE <<s[1]>> \o CollapseNewlines(Tail(s))

\* s.replace(NBSP, " ").replace(ZWSP, "")
ReplaceSpecials(s) ==
    LET t == [i \in DOMAIN s |-> IF s[i] = NBSP THEN " " ELSE s[i]]
    IN  SelectSeq(t, LAMBDA c : c # ZWSP)

fix_vietnamese_text(s) ==
    strip(NFC(CollapseNewlines(CollapseBlanks(ReplaceSpecials(s)))))

NoStroke(s) ==
    [i \in DOMAIN s |-> IF s[i] = "dstroke" THEN "d" ELSE IF s[i] = "Dstroke" THEN "D" ELSE s[i]]

DropCombining(s) == SelectSeq(s, LAMBDA c : ~combining(c))

\* A fold that decomposes but forgets to drop the combining marks.
fold_keeps_marks(s) ==
    lower(NFKD(NoStroke(fix_vietnamese_text(s))))

fold_vietnamese(s) ==
    lower(DropCombining(NFKD(NoStroke(fix_vietnamese_text(s)))))

normalize_query(q) ==
    LET q_fixed == fix_vietnamese_text(q)
    IN  <<q_fixed, fold_vietnamese(q_fixed)>>

(***************************************************************************)
(* services/search_service.py (the same code stands in backend.py)         *)
(***************************************************************************)
\* Python's \w on the universe: letters are word characters; blanks, the
\* punctuation sign, the zero-width space and the combining mark are not.
IsWordChar(c) == c \notin {" ", TAB, NBSP, ENSP, "\n", "-", ZWSP, BREVE}

\* re.split(r"\s+", s): the maximal runs of non-blank characters (the empty
\* pieces Python returns at the ends are dropped by the length filter below).
RECURSIVE SplitWS(_, _)
SplitWS(s, cur) ==
    IF s = <<>> THEN (IF cur = <<>> THEN <<>> ELSE <<cur>>)
    ELSE IF IsSpace(s[1])
         THEN (IF cur = <<>> THEN <<>> ELSE <<cur>>) \o SplitWS(Tail(s), <<>>)
         ELSE SplitWS(Tail(s), Append(cur, s[1]))

MinTokenLen == 2

_tokens(q_fold) == SelectSeq(SplitWS(q_fold, <<>>), LAMBDA t : Len(t) >= MinTokenLen)

\* The regex assertion \b at offset p (between text[p] and text[p+1]).
WordAt(text, k) == k \in 1..Len(text) /\ IsWordChar(text[k])

Boundary(text, p) == WordAt(text, p) # WordAt(text, p + 1)

\* re.search(rf"\b{re.escape(tok)}\b", text) is not None
SearchWord(tok, text) ==
    \E i \in 0..(Len(text) - Len(tok)) :
        /\ \A j \in 1..Len(tok) : text[i + j] = tok[j]
        /\ Boundary(text, i)
        /\ Boundary(text, i + Len(tok))

_all_tokens_in_text(q_fold, text_fold) ==
    LET toks == _tokens(q_fold)
    IN  \A k \in DOMAIN toks : SearchWord(toks[k], text_fold)

\* Longest common subsequence, the core of rapidfuzz's Indel similarity.
RECURSIVE LCS(_, _)
LCS(a, b) ==
    IF a = <<>> \/ b = <<>> THEN 0
    ELSE IF a[1] = b[1] THEN 1 + LCS(Tail(a), Tail(b))
    ELSE Max2(LCS(Tail(a), b), LCS(a, Tail(b)))

\* fuzz.ratio, rounded down to an integer.  rapidfuzz returns the float
\* 200*lcs/(len(a)+len(b)); for the string lengths of the model two different
\* values never share an integer part, so order and ties are those of the
\* floats, and so is every comparison with an integer threshold.
ratio(a, b) ==
    IF Len(a) + Len(b) = 0 THEN 100 ELSE (200 * LCS(a, b)) \div (Len(a) + Len(b))

SetMax(S) == CHOOSE x \in S : \A y \in S : y <= x

\* fuzz.partial_ratio: the best fuzz.ratio of the shorter string against a
\* window of the longer one (full-length windows, and the shorter windows that
\* overhang the two ends).
partial_ratio(s1, s2) ==
    LET short == IF Len(s1) <= Len(s2) THEN s1 ELSE s2
        long  == IF Len(s1) <= Len(s2) THEN s2 ELSE s1
        m == Len(short)
        n == Len(long)
        windows == {SubSeq(long, i, i + m - 1) : i \in 1..(n - m + 1)}
                   \cup {SubSeq(long, 1, k) : k \in 1..(m - 1)}
                   \cup {SubSeq(long, n - k + 1, n) : k \in 1..(m - 1)}
    IN  IF m = 0 THEN (IF n = 0 THEN 100 ELSE 0)
        ELSE SetMax({ratio(short, w) : w \in windows})

SnippetWindow == 60

\* _snippet(s, q, window)
_snippet(s, q, window) ==
    LET s_fix == fix_vietnamese_text(s)
        q_fix == fix_vietnamese_text(q)
        s_fold == fold_vietnamese(s_fix)
        q_fold == lower(fold_vietnamese(q_fix))
        hay == lower(s_fold)
        found == {i \in 0..(Len(hay) - Len(q_fold)) :
                      \A j \in 1..Len(q_fold) : hay[i + j] = q_fold[j]}
    IN  IF found = {} THEN Slice(s_fix, 1, Min2(Len(s_fix), window * 2))
        ELSE LET i == CHOOSE x \in found : \A y \in found : x <= y
                 left == Max2(0, i - window)
                 right == Min2(Len(s_fix), i + window)
             IN  Slice(s_fix, left + 1, right)

\* The score search_rows gives one row.
RowScore(q_fixed, q_fold, text_fixed, text_fold, exact) ==
    IF exact
    THEN (IF _all_tokens_in_text(q_fold, text_fold) THEN 100 ELSE 0)
    ELSE IF Contains(lower(text_fixed), lower(q_fixed)) \/ Contains(text_fold, q_fold)
         THEN 100
         ELSE Max2(partial_ratio(q_fixed, text_fixed), partial_ratio(q_fold, text_fold))

\* The comparison written with > instead of >=.
KeepsStrict(score, fuzz_threshold, exact) ==
    score > (IF exact THEN 100 ELSE fuzz_threshold)

\* "if score >= (100 if exact else fuzz_threshold)"
Keeps(score, fuzz_threshold, exact) ==
    score >= (IF exact THEN 100 ELSE fuzz_threshold)

\* One pass of the loop over DATABASE_ROWS: the (score, hit) pairs kept.
RECURSIVE ScanRows(_, _, _, _, _)
ScanRows(rows, q_fixed, q_fold, fuzz_threshold, exact) ==
    IF rows = <<>> THEN <<>>
    ELSE LET row == Head(rows)
             text_fixed == fix_vietnamese_text(row.text)
             text_fold == fold_vietnamese(text_fixed)
             score == RowScore(q_fixed, q_fold, text_fixed, text_fold, exact)
             rest == ScanRows(Tail(rows), q_fixed, q_fold, fuzz_threshold, exact)
         IN  IF Keeps(score, fuzz_threshold, exact)
             THEN <<[sheet |-> row.sheet,
                     row |-> row.row,
                     snippet |-> _snippet(text_fixed, q_fixed, SnippetWindow),
                     snippet_nodau |-> _snippet(text_fold, q_fold, SnippetWindow),
                     links |-> Range(row.links),
                     score |-> score]>> \o rest
             ELSE rest

\* list.sort(key=score, reverse=True): stable, descending.  An element is put
\* behind every element whose score is at least its own.
\* A sort that is not stable: an element overtakes the elements of equal score.
RECURSIVE InsertDescUnstable(_, _)
InsertDescUnstable(sorted, h) ==
    IF sorted = <<>> THEN <<h>>
    ELSE IF Head(sorted).score > h.score
         THEN <<Head(sorted)>> \o InsertDescUnstable(Tail(sorted), h)
         ELSE <<h>> \o sorted

RECURSIVE InsertDesc(_, _)
InsertDesc(sorted, h) ==
    IF sorted = <<>> THEN <<h>>
    ELSE IF Head(sorted).score >= h.score
         THEN <<Head(sorted)>> \o InsertDesc(Tail(sorted), h)
         ELSE <<h>> \o sorted

RECURSIVE SortDesc(_, _)
SortDesc(acc, rest) ==
    IF rest = <<>> THEN acc ELSE SortDesc(InsertDesc(acc, Head(rest)), Tail(rest))

\* Python's s[:k] for any integer k.
PrefixSlice(s, k) ==
    IF k >= 0 THEN SubSeq(s, 1, Min2(k, Len(s)))
    ELSE SubSeq(s, 1, Max2(Len(s) + k, 0))

\* A test that takes only the empty string for blank.
IsEmptyQuery(query) == query = <<>>

\* "if not query or not str(query).strip()"
IsBlankQuery(query) == strip(query) = <<>>

search_rows(rows, query, top_k, fuzz_threshold, exact) ==
    IF IsBlankQuery(query) THEN <<>>
    ELSE LET nq == normalize_query(query)
             results == ScanRows(rows, nq[1], nq[2], fuzz_threshold, exact)
         IN  PrefixSlice(SortDesc(<<>>, results), top_k)

(***************************************************************************)
(* utils/url_helpers.py                                                    *)
(*                                                                         *)
(* A URL-shaped string is the record of its parts: the scheme ("http" when *)
(* the string starts with http, "" when it has none), the part before the  *)
(* first "?" or "#" (its kind: a Google document, a Google spreadsheet or  *)
(* anything else, and the file id), the query/fragment suffix, and the     *)
(* bracket or quote that may trail it.  scheme is "http" for a string that *)
(* starts with http, "HTTP" for one that URL_RE finds although it is       *)
(* written in capitals, "" for one without scheme.                         *)
(***************************************************************************)
None == ""

Url(kind, id, sfx) ==
    [scheme |-> "http", kind |-> kind, id |-> id, sfx |-> sfx, trail |-> ""]

\* u.strip().strip('")]}').strip()
StripUrl(u) == [u EXCEPT !.trail = ""]

\* u.split("#")[0].split("?")[0]
UrlBase(u) == [u EXCEPT !.sfx = ""]

\* GID_RE = [#?&]gid=(\d+) on the suffixes of the model.
GidOfSuffix(sfx) ==
    CASE sfx = "#gid=0" -> "0"
      [] sfx = "#gid=7" -> "7"
      [] sfx = "?gid=9" -> "9"
      [] OTHER -> None

\* classify_google_url(url) -> (kind, file_id, gid)
classify_google_url(u) ==
    IF u.kind = "docs" THEN <<"docs", u.id, None>>
    ELSE IF u.kind = "sheets" THEN <<"sheets", u.id, GidOfSuffix(u.sfx)>>
    ELSE <<"unknown", None, None>>

\* A loop that drops only the strings it has seen, query and fragment
\* included.
RECURSIVE CleanUrlsExact(_, _)
CleanUrlsExact(urls, seen) ==
    IF urls = <<>> THEN <<>>
    ELSE LET u == StripUrl(Head(urls))
         IN  IF u.scheme # "http" THEN CleanUrlsExact(Tail(urls), seen)
             ELSE IF u \in seen THEN CleanUrlsExact(Tail(urls), seen)
             ELSE <<u>> \o CleanUrlsExact(Tail(urls), seen \cup {u})

\* The loop of clean_urls: strip, keep what starts with http, first of each
\* base.
RECURSIVE CleanUrlsFrom(_, _)
CleanUrlsFrom(urls, seen) ==
    IF urls = <<>> THEN <<>>
    ELSE LET u == StripUrl(Head(urls))
             base == UrlBase(u)
         IN  IF u.scheme # "http" THEN CleanUrlsFrom(Tail(urls), seen)
             ELSE IF base \in seen THEN CleanUrlsFrom(Tail(urls), seen)
             ELSE <<u>> \o CleanUrlsFrom(Tail(urls), seen \cup {base})

clean_urls(urls) == CleanUrlsFrom(urls, {})

(***************************************************************************)
(* services/index_service.py                                               *)
(*                                                                         *)
(* A display value is the record of its text and of the URL-shaped         *)
(* substrings URL_RE finds in it, in order; a formula is the record of the *)
(* first argument of its HYPERLINK call (none or one) and of the           *)
(* URL-shaped substrings of the formula text.                              *)
(***************************************************************************)
COL_LETTERS ==
    <<"A", "B", "C", "D", "E", "F", "G", "H", "I", "J", "K", "L", "M",
      "N", "O", "P", "Q", "R", "S", "T", "U", "V", "W", "X", "Y", "Z">>

\* A column label that is the last letter only (the loop body run once).
ColLabelLastLetter(c) ==
    IF c = 0 THEN <<>> ELSE <<COL_LETTERS[((c - 1) % 26) + 1]>>

\* "while c: c, rem = divmod(c - 1, 26); label = COL_LETTERS[rem] + label"
RECURSIVE ColLabel(_)
ColLabel(c) ==
    IF c = 0 THEN <<>>
    ELSE ColLabel((c - 1) \div 26) \o <<COL_LETTERS[((c - 1) % 26) + 1]>>

DIGITS == <<"0", "1", "2", "3", "4", "5", "6", "7", "8", "9">>

\* str(row) of a non-negative int, as the f-string renders it.
RECURSIVE Decimal(_)
Decimal(n) ==
    IF n < 10 THEN <<DIGITS[n + 1]>>
    ELSE Decimal(n \div 10) \o <<DIGITS[(n % 10) + 1]>>

\* f"{label}{row}": the letters, then the digits of the row number.
_a1_addr(row, col) == ColLabel(col) \o Decimal(row)

EmptyValue == [text |-> <<>>, urls |-> <<>>]

EmptyFormula == [hyper |-> <<>>, urls |-> <<>>]

\* isinstance(v, str): a cell value that is a number carries the field num.
IsStr(v) == "num" \notin DOMAIN v

\* The string of a display value: its text, each URL standing as one atom.
CellString(v) == v.text \o [i \in DOMAIN v.urls |-> "http"]

\* bool(v): a string is true when it is not empty, a number when it is not 0.
Truthy(v) == IF IsStr(v) THEN CellString(v) # <<>> ELSE v.num # 0

\* " ".join(strings)
RECURSIVE JoinSpace(_)
JoinSpace(ss) ==
    IF ss = <<>> THEN <<>>
    ELSE IF Len(ss) = 1 THEN ss[1]
    ELSE ss[1] \o <<" ">> \o JoinSpace(Tail(ss))

\* "https://" is put before a HYPERLINK argument without scheme that names
\* docs.google.com or drive.google.com.
WithScheme(u) ==
    IF u.scheme # "http" /\ u.kind \in {"docs", "sheets"}
    THEN [u EXCEPT !.scheme = "http"]
    ELSE u

extract_links_from_cell(val, formula) ==
    clean_urls(val.urls
               \o [i \in DOMAIN formula.hyper |-> WithScheme(formula.hyper[i])]
               \o formula.urls)

\* LINK_POOL.setdefault(u, []).append(loc)
PoolAppend(pool, u, loc) ==
    [k \in DOMAIN pool \cup {u} |->
        IF k = u THEN (IF u \in DOMAIN pool THEN Append(pool[u], loc) ELSE <<loc>>)
        ELSE pool[k]]

PoolGet(pool, u) == IF u \in DOMAIN pool THEN pool[u] ELSE <<>>

\* gid_to_name.get(str(maybe_gid), "") if maybe_gid else ""
SheetNameOf(gid_to_name, maybe_gid) ==
    IF maybe_gid # None /\ maybe_gid \in DOMAIN gid_to_name
    THEN gid_to_name[maybe_gid] ELSE ""

\* str(gid) of a worksheet id.
StrOfGid(g) ==
    CASE g = 0 -> "0" [] g = 7 -> "7" [] g = 9 -> "9" [] g = 11 -> "11" [] OTHER -> "?"

\* The gid -> title map.  "props.get('sheetId') or props.get('id')" takes the
\* id 0 for missing, and the properties carry no 'id'.
GidToName(worksheets) ==
    LET withId == {i \in DOMAIN worksheets : worksheets[i].sheetId # 0}
    IN  [g \in {StrOfGid(worksheets[i].sheetId) : i \in withId} |->
            worksheets[CHOOSE i \in withId : StrOfGid(worksheets[i].sheetId) = g].title]

\* rows[idx]["links"].append(u) inside try/except: an index past the end of
\* the list is swallowed.  idx is the 1-based position.
RowLinksAppend(rows, idx, u) ==
    IF idx \in DOMAIN rows
    THEN [rows EXCEPT ![idx].links = Append(@, u)]
    ELSE rows

\* The flat record of an occurrence.
FlatRecord(u, title, r, c, a1, gid, sheet_name) ==
    [url |-> u, sheet |-> title, row |-> r, col |-> c, address |-> a1,
     gid |-> gid, sheet_name |-> sheet_name]

\* The body of "for u in link_list" (primary pass) for one URL of cell (r, c).
\* b is the state of the build: the rows and sheets lists being filled, the
\* two link pools, seen_flat_keys and base_row_index of the sheet.
AddPrimary(b, title, r, c, u, gid_to_name) ==
    LET maybe_gid == classify_google_url(u)[3]
        sheet_name == SheetNameOf(gid_to_name, maybe_gid)
        a1 == _a1_addr(r, c)
        loc == [sheet |-> title, row |-> r, col |-> c, address |-> a1,
                sheet_gid |-> maybe_gid, sheet_name |-> sheet_name]
        k == <<u, a1>>
    IN  [b EXCEPT
            !.pool = PoolAppend(@, u, loc),
            !.list = IF k \in b.seen THEN @
                     ELSE Append(@, FlatRecord(u, title, r, c, a1, maybe_gid, sheet_name)),
            !.seen = @ \cup {k},
            !.rows = RowLinksAppend(@, b.base + r, u)]

\* "exists = any(loc.sheet == title and loc.address == a1_deep ...)"
ExistsAt(pool, u, title, a1) ==
    \E i \in DOMAIN PoolGet(pool, u) :
        PoolGet(pool, u)[i].sheet = title /\ PoolGet(pool, u)[i].address = a1

\* A deep pass that puts its occurrence in the place of those the URL has.
AddDeepReplace(b, title, item, gid_to_name) ==
    LET u == item.url
        maybe_gid == classify_google_url(u)[3]
        sheet_name == SheetNameOf(gid_to_name, maybe_gid)
        loc == [sheet |-> title, row |-> item.row, col |-> item.col,
                address |-> item.address,
                sheet_gid |-> maybe_gid, sheet_name |-> sheet_name]
        k == <<u, item.address>>
    IN  [b EXCEPT
            !.pool = [v \in DOMAIN @ \cup {u} |-> IF v = u THEN <<loc>> ELSE @[v]],
            !.list = IF k \in b.seen THEN @
                     ELSE Append(@, FlatRecord(u, title, item.row, item.col,
                                               item.address, maybe_gid, sheet_name)),
            !.seen = @ \cup {k},
            !.rows = RowLinksAppend(@, b.base + item.row, u)]

\* A deep pass that appends without looking for the occurrence first.
AddDeepNoCheck(b, title, item, gid_to_name) ==
    LET u == item.url
        maybe_gid == classify_google_url(u)[3]
        sheet_name == SheetNameOf(gid_to_name, maybe_gid)
        loc == [sheet |-> title, row |-> item.row, col |-> item.col,
                address |-> item.address,
                sheet_gid |-> maybe_gid, sheet_name |-> sheet_name]
        k == <<u, item.address>>
    IN  [b EXCEPT
            !.pool = PoolAppend(@, u, loc),
            !.list = IF k \in b.seen THEN @
                     ELSE Append(@, FlatRecord(u, title, item.row, item.col,
                                               item.address, maybe_gid, sheet_name)),
            !.seen = @ \cup {k},
            !.rows = RowLinksAppend(@, b.base + item.row, u)]

\* The body of "for item in occs" (deep pass).
AddDeep(b, title, item, gid_to_name) ==
    LET u == item.url
        maybe_gid == classify_google_url(u)[3]
        sheet_name == SheetNameOf(gid_to_name, maybe_gid)
        loc == [sheet |-> title, row |-> item.row, col |-> item.col,
                address |-> item.address,
                sheet_gid |-> maybe_gid, sheet_name |-> sheet_name]
        k == <<u, item.address>>
    IN  [b EXCEPT
            !.pool = IF ExistsAt(b.pool, u, title, item.address) THEN @
                     ELSE PoolAppend(@, u, loc),
            !.list = IF k \in b.seen THEN @
                     ELSE Append(@, FlatRecord(u, title, item.row, item.col,
                                               item.address, maybe_gid, sheet_name)),
            !.seen = @ \cup {k},
            !.rows = RowLinksAppend(@, b.base + item.row, u)]

\* values[r][c] if c < len(values[r]) else ""
ValueAt(values, r, c) ==
    IF r \in DOMAIN values /\ c \in DOMAIN values[r] THEN values[r][c] ELSE EmptyValue

\* formulas[r][c] if (r < len(formulas) and c < len(formulas[r])) else ""
FormulaAt(formulas, r, c) ==
    IF r \in DOMAIN formulas /\ c \in DOMAIN formulas[r] THEN formulas[r][c]
    ELSE EmptyFormula

NCols(values) ==
    IF values = <<>> THEN 0 ELSE SetMax({Len(values[r]) : r \in DOMAIN values})

\* The (url, r, c) visits of the primary pass, row by row, cell by cell.
PrimaryVisits(values, formulas) ==
    Flatten([r \in DOMAIN values |->
        Flatten([c \in 1..NCols(values) |->
            LET links == extract_links_from_cell(ValueAt(values, r, c),
                                                 FormulaAt(formulas, r, c))
            IN  [i \in DOMAIN links |-> [url |-> links[i], row |-> r, col |-> c]]])])

RECURSIVE PrimaryPass(_, _, _, _)
PrimaryPass(b, title, visits, gid_to_name) ==
    IF visits = <<>> THEN b
    ELSE PrimaryPass(AddPrimary(b, title, Head(visits).row, Head(visits).col,
                                Head(visits).url, gid_to_name),
                     title, Tail(visits), gid_to_name)

RECURSIVE DeepPass(_, _, _, _)
DeepPass(b, title, occs, gid_to_name) ==
    IF occs = <<>> THEN b
    ELSE DeepPass(AddDeep(b, title, Head(occs), gid_to_name),
                  title, Tail(occs), gid_to_name)

\* "if any((cell or '').strip() for cell in row_vals)"
RowHasText(row_vals) ==
    \E c \in DOMAIN row_vals : strip(CellString(row_vals[c])) # <<>>

\* (cell or "").strip() raises AttributeError for a true value that is no
\* string; any() reaches that cell when no cell before it is non-blank.
RowRaises(row_vals) ==
    \E c \in DOMAIN row_vals :
        /\ ~IsStr(row_vals[c]) /\ Truthy(row_vals[c])
        /\ \A d \in 1..(c - 1) :
              ~(IsStr(row_vals[d]) /\ strip(CellString(row_vals[d])) # <<>>)

PackRaises(values) == \E r \in DOMAIN values : RowRaises(values[r])

\* '"http" in (v or "")' raises TypeError for a true value that is no
\* string: the cells (r, c) of the primary pass at which that happens.
RaisingCells(values) ==
    {rc \in (DOMAIN values) \X (1..NCols(values)) :
        LET v == ValueAt(values, rc[1], rc[2]) IN ~IsStr(v) /\ Truthy(v)}

\* (r, c) is visited before every raising cell.
BeforeRaise(values, r, c) ==
    \A rc \in RaisingCells(values) : r < rc[1] \/ (r = rc[1] /\ c < rc[2])

\* (x for x in row_vals if isinstance(x, str))
StrCells(row_vals) == SelectSeq(row_vals, IsStr)

\* A packing that makes a record for every row, blank or not.
PackAllRows(title, values) ==
    [r \in DOMAIN values |->
        [sheet |-> title,
         row   |-> r,
         cols  |-> [c \in DOMAIN values[r] |-> CellString(values[r][c])],
         text  |-> JoinSpace([c \in DOMAIN StrCells(values[r]) |->
                                 CellString(StrCells(values[r])[c])]),
         links |-> <<>>]]

\* "Pack rows for search": one record per row that has a non-blank cell.
PackRows(title, values) ==
    LET kept == SelectSeq([r \in DOMAIN values |-> r],
                          LAMBDA r : RowHasText(values[r]))
    IN  [i \in DOMAIN kept |->
            [sheet |-> title,
             row   |-> kept[i],
             cols  |-> [c \in DOMAIN values[kept[i]] |->
                                     CellString(values[kept[i]][c])],
             text  |-> JoinSpace([c \in DOMAIN StrCells(values[kept[i]]) |->
                                     CellString(StrCells(values[kept[i]])[c])]),
             links |-> <<>>]]

\* utils/google_api.py, deep_scan_all_sheets: per sheet title the occurrences
\* found in the rich cell data, each cell's candidates cleaned by clean_urls.
DeepScanSheet(rich) ==
    Flatten([r \in DOMAIN rich |->
        Flatten([c \in DOMAIN rich[r] |->
            LET urls == clean_urls(rich[r][c])
            IN  [i \in DOMAIN urls |->
                    [url |-> urls[i], row |-> r, col |-> c,
                     address |-> _a1_addr(r, c)]]])])

\* deep_map: what deep_scan_all_sheets delivers, title -> occurrences, when
\* the deep pass is asked for and the Sheets service answers; {} otherwise.
DeepMap(worksheets, deep) ==
    IF deep = "on"
    THEN [t \in {worksheets[i].title : i \in DOMAIN worksheets} |->
            DeepScanSheet(worksheets[CHOOSE i \in DOMAIN worksheets :
                                         worksheets[i].title = t].rich)]
    ELSE [t \in {} |-> <<>>]

\* The worksheet loop's body from "nrows = len(values)" on: the formulas are
\* read, the rows packed, the primary pass and the deep pass run.
IndexValues(b, ws, values, read, deep_map, gid_to_name) ==
    LET formulas == IF read = "formulas_fail" \/ values = <<>> \/ NCols(values) = 0
                    THEN <<>> ELSE ws.formulas
        b2 == [b EXCEPT !.base = Len(b.rows),
                        !.rows = @ \o PackRows(ws.title, values)]
        visits == SelectSeq(PrimaryVisits(values, formulas),
                            LAMBDA v : BeforeRaise(values, v.row, v.col))
        b3 == PrimaryPass(b2, ws.title, visits, gid_to_name)
    IN  IF PackRaises(values) THEN [b EXCEPT !.raised = TRUE]
        ELSE IF RaisingCells(values) # {} THEN [b3 EXCEPT !.raised = TRUE]
        ELSE IF ws.title \in DOMAIN deep_map
        THEN DeepPass(b3, ws.title, deep_map[ws.title], gid_to_name)
        ELSE b3

\* A body of the worksheet loop that goes on with an empty grid when the
\* values cannot be read, instead of leaving the iteration.
IndexSheetNoSkip(b, ws, read, deep_map, gid_to_name) ==
    IndexValues([b EXCEPT !.sheets = Append(@, ws.title)], ws,
                IF read = "values_fail" THEN <<>> ELSE ws.values,
                read, deep_map, gid_to_name)

\* The body of "for ws in worksheets" for one worksheet.  read tells what the
\* Sheet Source answers: "ok", "values_fail" (get_all_values raises) or
\* "formulas_fail" (the FORMULA read raises).
IndexSheet(b, ws, read, deep_map, gid_to_name) ==
    LET b1 == [b EXCEPT !.sheets = Append(@, ws.title)]
    IN  IF read = "values_fail" THEN b1
        ELSE IndexValues(b1, ws, ws.values, read, deep_map, gid_to_name)

\* The state of a build at its first line: empty local lists, the link pools
\* as the process holds them.
NewBuild(pool, list) ==
    [rows |-> <<>>, sheets |-> <<>>, pool |-> pool, list |-> list,
     seen |-> {}, base |-> 0, raised |-> FALSE]

\* A build that starts on the link pools as it finds them.
KeepLinkPools(b) == b

\* A reset that clears the flat list and leaves the map.
ResetListOnly(b) == [b EXCEPT !.list = <<>>]

\* "Reset link pools": LINK_POOL.clear(); LINK_POOL_LIST.clear()
ResetLinkPools(b) == [b EXCEPT !.pool = [u \in {} |-> <<>>], !.list = <<>>]

RECURSIVE IndexSheets(_, _, _, _, _, _)
IndexSheets(b, worksheets, i, reads, deep_map, gid_to_name) ==
    IF i > Len(worksheets) \/ b.raised THEN b
    ELSE IndexSheets(IndexSheet(b, worksheets[i], reads[i], deep_map, gid_to_name),
                     worksheets, i + 1, reads, deep_map, gid_to_name)

\* build_index(verbose, deep), started on the link pools (pool, list),
\* against a Sheet Source that holds worksheets and answers req: req.open is
\* FALSE when the source cannot be reached at all (no id, no library, no
\* client, open_by_key raises); req.deep is "on" when the deep pass is asked
\* for and the scan delivers; req.reads gives each sheet's answer.
build_index(pool, list, worksheets, req) ==
    LET b0 == ResetLinkPools(NewBuild(pool, list))
    IN  IF ~req.open THEN b0
        ELSE IndexSheets(b0, worksheets, 1, req.reads,
                         DeepMap(worksheets, req.deep), GidToName(worksheets))

(***************************************************************************)
(* The process-wide state (backend/config.py, the globals of backend.py),  *)
(* the Sheet Source and the requests.                                      *)
(*                                                                         *)
(* source is the workbook the Sheet Source holds; build is the position of *)
(* the process: "boot" before the startup hook has run, "idle" between     *)
(* requests, and, while a rebuild of backend.py runs in its worker thread, *)
(* the locals of index_sources.  request is the last request received and  *)
(* response what its handler returned.                                     *)
(***************************************************************************)
VARIABLES DATABASE_ROWS, SHEETS, LINK_POOL, LINK_POOL_LIST, source, build,
          request, response, clients, clock, forwarded, pending, sent

vars == <<DATABASE_ROWS, SHEETS, LINK_POOL, LINK_POOL_LIST, source, build,
          request, response, clients, clock, forwarded, pending, sent>>

(***************************************************************************)
(* middleware/rate_limiter.py: the state of one RateLimitMiddleware.       *)
(* clients is self.clients, clock is what time.time() returns, forwarded   *)
(* records the times at which call_next was entered for each client, and   *)
(* pending counts the requests that are inside call_next, and sent counts  *)
(* for each peer the requests of that peer that were forwarded, up to      *)
(* max_requests.                                                           *)
(***************************************************************************)
ClientKeys == {"10.0.0.1", "unknown"}

\* The peers that send requests: request.client.host, None when the
\* connection gives no address.
Peers == {"10.0.0.1", None}

limiter == <<clients, clock, forwarded, pending, sent>>

\* RateLimitMiddleware.__init__: self.clients = defaultdict(list)
LimiterInit ==
    /\ clients = [c \in ClientKeys |-> <<>>]
    /\ clock = 0
    /\ forwarded = [c \in ClientKeys |-> <<>>]
    /\ pending = 0
    /\ sent = [p \in Peers |-> 0]

NoResponse == [kind |-> "none"]

\* The empty dict.
EmptyPool == [u \in {} |-> <<>>]

Boot == [pc |-> "boot"]

Idle == [pc |-> "idle"]

(***************************************************************************)
(* Search over a published index.  The index and the request are drawn in  *)
(* the initial state; the handler answers the request.                     *)
(***************************************************************************)
MaxRows == 3

MaxPieces == 3

TopKDefault == 20

FuzzDefault == 85

\* The row record build_index packs for row i of a one-column workbook whose
\* first sheet has one row: sheet order, then row order.
RowOf(i, text) ==
    [sheet |-> IF i <= 1 THEN "S1" ELSE "S2",
     row   |-> IF i <= 1 THEN i ELSE i - 1,
     cols  |-> <<text>>,
     text  |-> text,
     links |-> <<>>]

IndexOf(texts) == [i \in DOMAIN texts |-> RowOf(i, texts[i])]

SheetsOf(rows) ==
    IF rows = <<>> THEN <<>>
    ELSE IF \E i \in DOMAIN rows : rows[i].sheet = "S2" THEN <<"S1", "S2">>
    ELSE <<"S1">>

SearchTexts ==
    { <<"a", "n">>, <<"abreve", "n">>, <<"n", "b">>, <<"b">>, <<"A", "n", " ", "b">> }

SearchQueries ==
    { <<"a", "n">>, <<"n", "b">>, <<"n">>, <<" ">>, <<>>, <<TAB, NBSP>> }

Thresholds == {0, 60, 100}

SearchRequests ==
    [kind : {"search"}, q : SearchQueries, top_k : (-1)..(MaxRows + 1),
     fuzz_threshold : Thresholds, exact : BOOLEAN]

search ==
    /\ request.kind = "search"
    /\ response.kind = "none"
    /\ response' = [kind |-> "search",
                    hits |-> search_rows(DATABASE_ROWS, request.q, request.top_k,
                                         request.fuzz_threshold, request.exact)]
    /\ UNCHANGED <<DATABASE_ROWS, SHEETS, LINK_POOL, LINK_POOL_LIST, source, build,
                   request>>
    /\ UNCHANGED limiter

SearchInit ==
    /\ DATABASE_ROWS \in {IndexOf(t) : t \in SeqsUpTo(SearchTexts, MaxRows)}
    /\ SHEETS = SheetsOf(DATABASE_ROWS)
    /\ LINK_POOL = EmptyPool
    /\ LINK_POOL_LIST = <<>>
    /\ source = <<>>
    /\ build = Idle
    /\ request \in SearchRequests
    /\ response = NoResponse
    /\ LimiterInit

SearchNext == search

SearchSpec == SearchInit /\ [][SearchNext]_vars

\* One-row indexes over every text made of up to MaxPieces pieces.
TextPieces ==
    { <<"a", "n">>, <<"abreve", "n">>, <<"b", "a">>, <<" ">>, <<"-">> }

QueryPieces ==
    { <<"a", "n">>, <<"b", "a">>, <<" ">>, <<"-">> }

MatchTexts ==
    {t \in {Flatten(ps) : ps \in SeqsUpTo(TextPieces, MaxPieces)} : strip(t) # <<>>}

\* The text of a row whose only filled cell holds a zero-width space: the
\* cell passes the blank test of the indexer (str.strip leaves U+200B) and
\* the repaired text is empty.
TextlessTexts == {<<ZWSP>>}

MatchQueries == {Flatten(ps) : ps \in SeqsUpTo(QueryPieces, 3)} \ {<<>>}

MatchRequests ==
    [kind : {"search"}, q : MatchQueries, top_k : {TopKDefault},
     fuzz_threshold : {FuzzDefault}, exact : {TRUE}]
    \cup
    [kind : {"search"}, q : MatchQueries, top_k : {TopKDefault},
     fuzz_threshold : {0, 100}, exact : {FALSE}]

MatchInit ==
    /\ DATABASE_ROWS \in {IndexOf(<<t>>) : t \in MatchTexts \cup TextlessTexts}
    /\ SHEETS = SheetsOf(DATABASE_ROWS)
    /\ LINK_POOL = EmptyPool
    /\ LINK_POOL_LIST = <<>>
    /\ source = <<>>
    /\ build = Idle
    /\ request \in MatchRequests
    /\ response = NoResponse
    /\ LimiterInit

MatchSpec == MatchInit /\ [][SearchNext]_vars

(***************************************************************************)
(* _snippet on its own: text, query and window are drawn in the initial    *)
(* state and the function answers.                                         *)
(***************************************************************************)
MaxText == 4

SnippetChars == {"a", "n", "Abreve", " "}

SnippetRequests ==
    {[kind |-> "snippet", s |-> s, q |-> q, window |-> w] :
        s \in SeqsUpTo(SnippetChars, MaxText),
        q \in SeqsUpTo({"a", "n", "abreve"}, 2) \ {<<>>},
        w \in 0..2}

snippet ==
    /\ request.kind = "snippet"
    /\ response.kind = "none"
    /\ response' = [kind |-> "snippet",
                    text |-> _snippet(request.s, request.q, request.window)]
    /\ UNCHANGED <<DATABASE_ROWS, SHEETS, LINK_POOL, LINK_POOL_LIST, source, build,
                   request>>
    /\ UNCHANGED limiter

SnippetInit ==
    /\ DATABASE_ROWS = <<>>
    /\ SHEETS = <<>>
    /\ LINK_POOL = EmptyPool
    /\ LINK_POOL_LIST = <<>>
    /\ source = <<>>
    /\ build = Idle
    /\ request \in SnippetRequests
    /\ response = NoResponse
    /\ LimiterInit

SnippetNext == snippet

SnippetSpec == SnippetInit /\ [][SnippetNext]_vars

(***************************************************************************)
(* fold_vietnamese on its own: a string is drawn in the initial state, the *)
(* function folds it, and the folded string is folded once more.           *)
(***************************************************************************)
MaxFold == 4

FoldChars == {"a", "Abreve", "Dstroke", " ", ENSP}

FoldRequests == {[kind |-> "fold", s |-> s] : s \in SeqsUpTo(FoldChars, MaxFold)}

fold ==
    /\ request.kind = "fold"
    /\ response.kind = "none"
    /\ response' = [kind |-> "fold", once |-> fold_vietnamese(request.s)]
    /\ UNCHANGED <<DATABASE_ROWS, SHEETS, LINK_POOL, LINK_POOL_LIST, source, build,
                   request>>
    /\ UNCHANGED limiter

fold_again ==
    /\ request.kind = "fold"
    /\ response.kind = "fold"
    /\ response' = [kind |-> "fold_again", once |-> response.once,
                    twice |-> fold_vietnamese(response.once)]
    /\ UNCHANGED <<DATABASE_ROWS, SHEETS, LINK_POOL, LINK_POOL_LIST, source, build,
                   request>>
    /\ UNCHANGED limiter

FoldInit ==
    /\ DATABASE_ROWS = <<>>
    /\ SHEETS = <<>>
    /\ LINK_POOL = EmptyPool
    /\ LINK_POOL_LIST = <<>>
    /\ source = <<>>
    /\ build = Idle
    /\ request \in FoldRequests
    /\ response = NoResponse
    /\ LimiterInit

FoldNext == fold \/ fold_again

FoldSpec == FoldInit /\ [][FoldNext]_vars

(***************************************************************************)
(* _a1_addr on its own: two cells of a sheet are drawn in the initial      *)
(* state and the function labels both.                                     *)
(***************************************************************************)
MaxAddrRow == 11

MaxAddrCol == 28

AddrCells == (1..MaxAddrRow) \X (1..MaxAddrCol)

AddrRequests == [kind : {"address"}, cell : AddrCells, other : AddrCells]

a1_addr ==
    /\ request.kind = "address"
    /\ response.kind = "none"
    /\ response' = [kind |-> "address",
                    a1 |-> _a1_addr(request.cell[1], request.cell[2]),
                    other |-> _a1_addr(request.other[1], request.other[2])]
    /\ UNCHANGED <<DATABASE_ROWS, SHEETS, LINK_POOL, LINK_POOL_LIST, source, build,
                   request>>
    /\ UNCHANGED limiter

AddrInit ==
    /\ DATABASE_ROWS = <<>>
    /\ SHEETS = <<>>
    /\ LINK_POOL = EmptyPool
    /\ LINK_POOL_LIST = <<>>
    /\ source = <<>>
    /\ build = Idle
    /\ request \in AddrRequests
    /\ response = NoResponse
    /\ LimiterInit

AddrNext == a1_addr

AddrSpec == AddrInit /\ [][AddrNext]_vars

(***************************************************************************)
(* The workbooks of the Sheet Source.                                      *)
(***************************************************************************)
MaxSheets == 2

MaxLinks == 3

D1 == Url("docs", "d1", "")

D1x == Url("docs", "d1", "?x")

W2 == Url("web", "w2", "")

G7 == Url("sheets", "s1", "#gid=7")

G0 == Url("sheets", "s1", "#gid=0")

Value(text, urls) == [text |-> text, urls |-> urls]

\* The FORMULA rendering of a cell that holds no formula is its value.
Plainly(v) == [hyper |-> <<>>, urls |-> v.urls]

Hyperlink(u) == [hyper |-> <<u>>, urls |-> <<u>>]

\* One cell A1 whose text carries a document link; the deep scan sees the
\* same link in the same cell.
GridLinkInValue ==
    [values   |-> << <<Value(<<"a", "n", " ">>, <<D1>>)>> >>,
     formulas |-> << <<Plainly(Value(<<"a", "n", " ">>, <<D1>>))>> >>,
     rich     |-> << << <<D1>> >> >>]

\* A blank first row, then a cell whose formula is a HYPERLINK; the deep scan
\* sees that link and a second one of the cell's note.
GridHyperlinkFormula ==
    [values   |-> << <<EmptyValue>>, <<Value(<<"b">>, <<>>)>> >>,
     formulas |-> << <<EmptyFormula>>, <<Hyperlink(W2)>> >>,
     rich     |-> << << <<>> >>, << <<W2, D1x>> >> >>]

\* A row of two cells, the second a link to the worksheet with id 7.
GridLinkToSheet ==
    [values   |-> << <<Value(<<"n", " ", "b">>, <<>>), Value(<<>>, <<G7>>)>> >>,
     formulas |-> << <<Plainly(Value(<<"n", " ", "b">>, <<>>)),
                       Plainly(Value(<<>>, <<G7>>))>> >>,
     rich     |-> << << <<>>, <<G7>> >> >>]

Grids == {GridLinkInValue, GridHyperlinkFormula, GridLinkToSheet}

\* A cell value that is a number, as the source gives it unformatted.
Number(n) == [text |-> <<>>, urls |-> <<>>, num |-> n]

\* A cell with a link, then a number in the same row.
GridNumberAfterText ==
    [values   |-> << <<Value(<<"b">>, <<D1>>), Number(5)>> >>,
     formulas |-> << <<Plainly(Value(<<"b">>, <<D1>>)), Plainly(Number(5))>> >>,
     rich     |-> << << <<D1>>, <<>> >> >>]

\* A number in the first cell of a row, then a text.
GridNumberFirst ==
    [values   |-> << <<Number(5), Value(<<"b">>, <<>>)>> >>,
     formulas |-> << <<Plainly(Number(5)), Plainly(Value(<<"b">>, <<>>))>> >>,
     rich     |-> << << <<>>, <<>> >> >>]

\* The number 0 between two texts.
GridZero ==
    [values   |-> << <<Value(<<"a">>, <<>>), Number(0), Value(<<"b">>, <<W2>>)>> >>,
     formulas |-> << <<Plainly(Value(<<"a">>, <<>>)), Plainly(Number(0)),
                       Plainly(Value(<<"b">>, <<W2>>))>> >>,
     rich     |-> << << <<>>, <<>>, <<W2>> >> >>]

\* A row of two cells, the second a link to the worksheet with id 0, the
\* first worksheet of a workbook.
GridLinkToFirst ==
    [values   |-> << <<Value(<<"n", " ", "b">>, <<>>), Value(<<>>, <<G0>>)>> >>,
     formulas |-> << <<Plainly(Value(<<"n", " ", "b">>, <<>>)),
                       Plainly(Value(<<>>, <<G0>>))>> >>,
     rich     |-> << << <<>>, <<G0>> >> >>]

\* One cell A1 with the formula HYPERLINK("http://docs/d1?x", "b http://docs/d1"):
\* the value is the label, which spells the link without its query; the cell
\* data of the deep scan carries the hyperlink attribute first, then the
\* formula and the formatted value.
GridLabelledLink ==
    [values   |-> << <<Value(<<"b", " ">>, <<D1>>)>> >>,
     formulas |-> << <<[hyper |-> <<D1x>>, urls |-> <<D1x, D1>>]>> >>,
     rich     |-> << << <<D1x, D1x, D1x, D1>> >> >>]

Titles == <<"S1", "S2", "S3", "S4">>

SheetIds == <<0, 7, 9, 11>>

\* The worksheet at position i of a workbook: gspread's title, sheetId and
\* what its reads and the Sheets API deliver.
Worksheet(i, grid) ==
    [title |-> Titles[i], sheetId |-> SheetIds[i],
     values |-> grid.values, formulas |-> grid.formulas, rich |-> grid.rich]

WorkbooksOf(grids) ==
    {[i \in DOMAIN gs |-> Worksheet(i, gs[i])] : gs \in SeqsUpTo(grids, MaxSheets)}

Reads == {"ok", "values_fail", "formulas_fail"}

\* What a rebuild meets at the Sheet Source of a workbook of n sheets: the
\* workbook cannot be opened, or it can and at most one of its sheets fails
\* a read.
RebuildRequests(n, reads) ==
    {[kind |-> "rebuild", open |-> FALSE, deep |-> "off", reads |-> [i \in 1..n |-> "ok"]]}
    \cup {[kind |-> "rebuild", open |-> TRUE, deep |-> d, reads |-> r] :
             d \in {"off", "on"},
             r \in {f \in [1..n -> reads] :
                       Cardinality({i \in 1..n : f[i] # "ok"}) <= 1}}

(***************************************************************************)
(* The extractors on one cell: the candidates are drawn in the initial     *)
(* state, extract_links_from_cell answers for a value and a formula, the   *)
(* cell loop of deep_scan_all_sheets for the candidates of a rich cell.    *)
(***************************************************************************)
MaxUrls == 2

\* What URL_RE finds in a string.
FoundUrls ==
    {D1, D1x, [D1 EXCEPT !.trail = "}"], W2, [W2 EXCEPT !.scheme = "HTTP"]}

\* What the first argument of HYPERLINK can be.
HyperlinkArgs == FoundUrls \cup {[D1x EXCEPT !.scheme = ""], [W2 EXCEPT !.scheme = ""]}

ExtractRequests ==
    {[kind |-> "extract",
      val |-> [text |-> <<>>, urls |-> v],
      formula |-> [hyper |-> h, urls |-> f]] :
        v \in SeqsUpTo(FoundUrls, MaxUrls),
        h \in {<<>>} \cup {<<u>> : u \in HyperlinkArgs},
        f \in SeqsUpTo(FoundUrls, 1)}
    \cup {[kind |-> "deep_extract", urls |-> c] :
             c \in SeqsUpTo(HyperlinkArgs, MaxUrls + 1)}

\* extract_links_from_cell(val, formula)
extract ==
    /\ request.kind = "extract"
    /\ response.kind = "none"
    /\ response' = [kind |-> "extract",
                    urls |-> extract_links_from_cell(request.val, request.formula)]
    /\ UNCHANGED <<DATABASE_ROWS, SHEETS, LINK_POOL, LINK_POOL_LIST, source, build,
                   request>>
    /\ UNCHANGED limiter

\* "urls = clean_urls(urls)" in the cell loop of deep_scan_all_sheets
deep_extract ==
    /\ request.kind = "deep_extract"
    /\ response.kind = "none"
    /\ response' = [kind |-> "extract", urls |-> clean_urls(request.urls)]
    /\ UNCHANGED <<DATABASE_ROWS, SHEETS, LINK_POOL, LINK_POOL_LIST, source, build,
                   request>>
    /\ UNCHANGED limiter

ExtractInit ==
    /\ DATABASE_ROWS = <<>>
    /\ SHEETS = <<>>
    /\ LINK_POOL = EmptyPool
    /\ LINK_POOL_LIST = <<>>
    /\ source = <<>>
    /\ build = Idle
    /\ request \in ExtractRequests
    /\ response = NoResponse
    /\ LimiterInit

ExtractNext == extract \/ deep_extract

ExtractSpec == ExtractInit /\ [][ExtractNext]_vars

(***************************************************************************)
(* main_refactored.py with its routers.  Every handler is a coroutine      *)
(* without an await inside, so it runs from its first to its last line     *)
(* before the event loop serves another request.                           *)
(***************************************************************************)
\* list.clear()
clear(l) == <<>>

\* startup_event: the first build; rows and titles are put after what the
\* lists hold.
\* What is left of a request whose build raised: the "Index build failed"
\* line of the start-up log, status 500 of POST /rebuild.
BuildFailed == [kind |-> "error"]

startup_event ==
    /\ build.pc = "boot"
    /\ \E req \in RebuildRequests(Len(source), Reads) :
          LET b == build_index(LINK_POOL, LINK_POOL_LIST, source, req)
          IN  /\ DATABASE_ROWS' = IF b.raised THEN DATABASE_ROWS
                                  ELSE DATABASE_ROWS \o b.rows
              /\ SHEETS' = IF b.raised THEN SHEETS ELSE SHEETS \o b.sheets
              /\ LINK_POOL' = b.pool
              /\ LINK_POOL_LIST' = b.list
              /\ request' = [req EXCEPT !.kind = "startup"]
              /\ response' = IF b.raised THEN BuildFailed ELSE NoResponse
    /\ build' = Idle
    /\ UNCHANGED source
    /\ UNCHANGED limiter

\* A handler that leaves the rows of the last build in place.
rows_not_cleared(l) == l

\* POST /rebuild: DATABASE_ROWS.clear()
rows_cleared(l) == clear(l)

\* POST /rebuild
rebuild_index ==
    /\ build.pc = "idle"
    /\ \E req \in RebuildRequests(Len(source), Reads) :
          LET b == build_index(LINK_POOL, LINK_POOL_LIST, source, req)
          IN  /\ DATABASE_ROWS' = IF b.raised THEN rows_cleared(DATABASE_ROWS)
                                  ELSE rows_cleared(DATABASE_ROWS) \o b.rows
              /\ SHEETS' = IF b.raised THEN clear(SHEETS)
                           ELSE clear(SHEETS) \o b.sheets
              /\ LINK_POOL' = b.pool
              /\ LINK_POOL_LIST' = b.list
              /\ request' = req
              /\ response' = IF b.raised THEN BuildFailed
                             ELSE [kind |-> "rebuild", ok |-> TRUE,
                                   indexed_rows |-> Len(DATABASE_ROWS'),
                                   sheets |-> SHEETS',
                                   total_links |-> Len(LINK_POOL_LIST'),
                                   unique_urls |-> Cardinality(DOMAIN LINK_POOL')]
    /\ UNCHANGED <<source, build>>
    /\ UNCHANGED limiter

\* GET /health
health ==
    /\ build.pc = "idle"
    /\ request' = [kind |-> "health"]
    /\ response' = [kind |-> "health",
                    database_rows |-> Len(DATABASE_ROWS),
                    sheets |-> SHEETS,
                    total |-> Len(LINK_POOL_LIST),
                    unique_urls |-> Cardinality(DOMAIN LINK_POOL)]
    /\ UNCHANGED <<DATABASE_ROWS, SHEETS, LINK_POOL, LINK_POOL_LIST, source, build>>
    /\ UNCHANGED limiter

\* extract_gid_from_url
extract_gid_from_url(u) == GidOfSuffix(u.sfx)

\* POST /links
add_link ==
    /\ build.pc = "idle"
    /\ Len(LINK_POOL_LIST) < MaxLinks
    /\ \E url \in {W2, G7}, sheet \in {"S1"}, row \in {1}, col \in {1} :
          LET gid == extract_gid_from_url(url)
              address == _a1_addr(row, col)
              link_record == FlatRecord(url, sheet, row, col, address, gid, "")
          IN  /\ LINK_POOL_LIST' = Append(LINK_POOL_LIST, link_record)
              /\ LINK_POOL' =
                    PoolAppend(LINK_POOL, url,
                               [sheet |-> sheet, row |-> row, col |-> col,
                                address |-> address, sheet_gid |-> gid,
                                sheet_name |-> ""])
              /\ request' = [kind |-> "add_link", url |-> url, sheet |-> sheet,
                             row |-> row, col |-> col]
              /\ response' = [kind |-> "add_link", ok |-> TRUE, link |-> link_record,
                              total_links |-> Len(LINK_POOL_LIST')]
    /\ UNCHANGED <<DATABASE_ROWS, SHEETS, source, build>>
    /\ UNCHANGED limiter

\* The process right after import: the globals of config.py are empty.
Init ==
    /\ DATABASE_ROWS = <<>>
    /\ SHEETS = <<>>
    /\ LINK_POOL = EmptyPool
    /\ LINK_POOL_LIST = <<>>
    /\ source \in WorkbooksOf(Grids)
    /\ build = Boot
    /\ request = [kind |-> "none"]
    /\ response = NoResponse
    /\ LimiterInit

Next == startup_event \/ rebuild_index \/ health \/ add_link

Spec == Init /\ [][Next]_vars

(***************************************************************************)
(* The services called in one process: builds, manual links and            *)
(* SearchService.search_rows over the rows the last build published.       *)
(***************************************************************************)
ServiceSearchRequests ==
    [kind : {"search"}, q : {<<"a", "n">>, <<"n">>, <<" ">>}, top_k : {TopKDefault},
     fuzz_threshold : {0, 100}, exact : BOOLEAN]

\* SearchService.search_rows(query, top_k, fuzz_threshold, exact)
search_indexed ==
    /\ build.pc = "idle"
    /\ \E req \in ServiceSearchRequests :
          /\ request' = req
          /\ response' = [kind |-> "search",
                          hits |-> search_rows(DATABASE_ROWS, req.q, req.top_k,
                                               req.fuzz_threshold, req.exact)]
    /\ UNCHANGED <<DATABASE_ROWS, SHEETS, LINK_POOL, LINK_POOL_LIST, source, build>>
    /\ UNCHANGED limiter

InitService ==
    /\ DATABASE_ROWS = <<>>
    /\ SHEETS = <<>>
    /\ LINK_POOL = EmptyPool
    /\ LINK_POOL_LIST = <<>>
    /\ source \in WorkbooksOf({GridLinkInValue})
    /\ build = Boot
    /\ request = [kind |-> "none"]
    /\ response = NoResponse
    /\ LimiterInit

NextService == startup_event \/ rebuild_index \/ add_link \/ search_indexed

SpecService == InitService /\ [][NextService]_vars

(***************************************************************************)
(* Builds of workbooks whose cells link to worksheets of the workbook, the *)
(* first worksheet (sheetId 0) included.                                   *)
(***************************************************************************)
InitResolve ==
    /\ DATABASE_ROWS = <<>>
    /\ SHEETS = <<>>
    /\ LINK_POOL = EmptyPool
    /\ LINK_POOL_LIST = <<>>
    /\ source \in WorkbooksOf({GridLinkToSheet, GridLinkToFirst})
    /\ build = Boot
    /\ request = [kind |-> "none"]
    /\ response = NoResponse
    /\ LimiterInit

NextResolve == startup_event \/ rebuild_index

SpecResolve == InitResolve /\ [][NextResolve]_vars

(***************************************************************************)
(* Builds of workbooks in which a cell shows one link through several of   *)
(* its sources.                                                            *)
(***************************************************************************)
InitSources ==
    /\ DATABASE_ROWS = <<>>
    /\ SHEETS = <<>>
    /\ LINK_POOL = EmptyPool
    /\ LINK_POOL_LIST = <<>>
    /\ source \in WorkbooksOf({GridLabelledLink, GridLinkInValue})
    /\ build = Boot
    /\ request = [kind |-> "none"]
    /\ response = NoResponse
    /\ LimiterInit

NextSources == startup_event \/ rebuild_index

SpecSources == InitSources /\ [][NextSources]_vars

(***************************************************************************)
(* Builds of workbooks that hold cell values which are no strings.         *)
(***************************************************************************)
InitCells ==
    /\ DATABASE_ROWS = <<>>
    /\ SHEETS = <<>>
    /\ LINK_POOL = EmptyPool
    /\ LINK_POOL_LIST = <<>>
    /\ source \in WorkbooksOf({GridNumberAfterText, GridNumberFirst, GridZero})
    /\ build = Boot
    /\ request = [kind |-> "none"]
    /\ response = NoResponse
    /\ LimiterInit

NextCells == startup_event \/ rebuild_index

SpecCells == InitCells /\ [][NextCells]_vars

(***************************************************************************)
(* backend.py.  Its handlers are plain functions, which the framework runs *)
(* in worker threads: a rebuild is underway, one worksheet after the       *)
(* other, while other requests are answered.                               *)
(***************************************************************************)
\* _startup_build, before the server takes requests.
_startup_build ==
    /\ build.pc = "boot"
    /\ \E req \in RebuildRequests(Len(source), {"ok", "values_fail"}) :
          LET b == build_index(LINK_POOL, LINK_POOL_LIST, source, req)
          IN  /\ DATABASE_ROWS' = b.rows
              /\ SHEETS' = b.sheets
              /\ LINK_POOL' = b.pool
              /\ LINK_POOL_LIST' = b.list
              /\ request' = [req EXCEPT !.kind = "startup"]
    /\ build' = Idle
    /\ response' = NoResponse
    /\ UNCHANGED source
    /\ UNCHANGED limiter

\* GET /rebuild_db enters index_sources: the pools are reset and the
\* workbook is opened.
rebuild_db_start ==
    /\ build.pc = "idle"
    /\ \E req \in RebuildRequests(Len(source), {"ok", "values_fail"}) :
          LET b == ResetLinkPools(NewBuild(LINK_POOL, LINK_POOL_LIST))
          IN  /\ LINK_POOL' = b.pool
              /\ LINK_POOL_LIST' = b.list
              /\ build' = [pc |-> IF req.open THEN "sheets" ELSE "return",
                           i |-> 1, rows |-> b.rows, sheets |-> b.sheets,
                           seen |-> b.seen, base |-> b.base, req |-> req]
              /\ request' = req
    /\ response' = NoResponse
    /\ UNCHANGED <<DATABASE_ROWS, SHEETS, source>>
    /\ UNCHANGED limiter

\* One turn of "for ws in worksheets" in index_sources.
rebuild_db_sheet ==
    /\ build.pc = "sheets"
    /\ build.i <= Len(source)
    /\ LET b == IndexSheet([rows |-> build.rows, sheets |-> build.sheets,
                            pool |-> LINK_POOL, list |-> LINK_POOL_LIST,
                            seen |-> build.seen, base |-> build.base,
                            raised |-> FALSE],
                           source[build.i], build.req.reads[build.i],
                           DeepMap(source, build.req.deep), GidToName(source))
       IN  /\ LINK_POOL' = b.pool
           /\ LINK_POOL_LIST' = b.list
           /\ build' = [build EXCEPT !.i = @ + 1, !.rows = b.rows,
                                     !.sheets = b.sheets, !.seen = b.seen,
                                     !.base = b.base]
    /\ response' = NoResponse
    /\ UNCHANGED <<DATABASE_ROWS, SHEETS, source, request>>
    /\ UNCHANGED limiter

\* index_sources returns and rebuild_db binds the globals to its lists.
rebuild_db_finish ==
    /\ \/ build.pc = "return"
       \/ build.pc = "sheets" /\ build.i > Len(source)
    /\ DATABASE_ROWS' = build.rows
    /\ SHEETS' = build.sheets
    /\ build' = Idle
    /\ request' = build.req
    /\ response' = [kind |-> "rebuild", status |-> "ok",
                    rows |-> Len(DATABASE_ROWS'), sheets |-> Len(SHEETS'),
                    links |-> Cardinality(DOMAIN LINK_POOL)]
    /\ UNCHANGED <<LINK_POOL, LINK_POOL_LIST, source>>
    /\ UNCHANGED limiter

\* GET /health of backend.py, from another worker thread.
legacy_health ==
    /\ build.pc # "boot"
    /\ request' = [kind |-> "health"]
    /\ response' = [kind |-> "health", ok |-> TRUE,
                    rows |-> Len(DATABASE_ROWS), sheets |-> Len(SHEETS),
                    links |-> Cardinality(DOMAIN LINK_POOL)]
    /\ UNCHANGED <<DATABASE_ROWS, SHEETS, LINK_POOL, LINK_POOL_LIST, source, build>>
    /\ UNCHANGED limiter

InitLegacy ==
    /\ DATABASE_ROWS = <<>>
    /\ SHEETS = <<>>
    /\ LINK_POOL = EmptyPool
    /\ LINK_POOL_LIST = <<>>
    /\ source \in WorkbooksOf({GridLinkInValue, GridLinkToSheet})
    /\ build = Boot
    /\ request = [kind |-> "none"]
    /\ response = NoResponse
    /\ LimiterInit

NextLegacy ==
    \/ _startup_build
    \/ rebuild_db_start
    \/ rebuild_db_sheet
    \/ rebuild_db_finish
    \/ legacy_health

SpecLegacy == InitLegacy /\ [][NextLegacy]_vars

(***************************************************************************)
(* backend.py: two GET /rebuild_db requests.  rebuild_db is a plain def, so *)
(* each request runs in a worker thread of its own; the threads share the  *)
(* globals LINK_POOL and LINK_POOL_LIST and take turns between the reads   *)
(* of the worksheets.  build.th[k] holds the locals of thread k.           *)
(***************************************************************************)
Workers == {1, 2}

Waiting == [pc |-> "waiting"]

\* Thread k enters index_sources: the pools are reset, the workbook opened
\* (the source is reachable for both requests).
overlap_start(k) ==
    /\ build.pc = "overlap"
    /\ build.th[k].pc = "waiting"
    /\ \E req \in {q \in RebuildRequests(Len(source), {"ok"}) : q.open} :
          LET b == ResetLinkPools(NewBuild(LINK_POOL, LINK_POOL_LIST))
          IN  /\ LINK_POOL' = b.pool
              /\ LINK_POOL_LIST' = b.list
              /\ build' = [build EXCEPT
                              !.th[k] = [pc |-> "sheets",
                                         i |-> 1, rows |-> b.rows, sheets |-> b.sheets,
                                         seen |-> b.seen, base |-> b.base,
                                         req |-> req]]
              /\ request' = req
    /\ response' = NoResponse
    /\ UNCHANGED <<DATABASE_ROWS, SHEETS, source>>
    /\ UNCHANGED limiter

\* One turn of "for ws in worksheets" in thread k.
overlap_sheet(k) ==
    /\ build.pc = "overlap"
    /\ build.th[k].pc = "sheets"
    /\ build.th[k].i <= Len(source)
    /\ LET th == build.th[k]
           b == IndexSheet([rows |-> th.rows, sheets |-> th.sheets,
                            pool |-> LINK_POOL, list |-> LINK_POOL_LIST,
                            seen |-> th.seen, base |-> th.base,
                            raised |-> FALSE],
                           source[th.i], th.req.reads[th.i],
                           DeepMap(source, th.req.deep), GidToName(source))
       IN  /\ LINK_POOL' = b.pool
           /\ LINK_POOL_LIST' = b.list
           /\ build' = [build EXCEPT
                           !.th[k] = [th EXCEPT !.i = @ + 1, !.rows = b.rows,
                                                !.sheets = b.sheets,
                                                !.seen = b.seen,
                                                !.base = b.base]]
    /\ UNCHANGED <<DATABASE_ROWS, SHEETS, source, request, response>>
    /\ UNCHANGED limiter

\* index_sources returns in thread k and rebuild_db binds the globals.
overlap_finish(k) ==
    /\ build.pc = "overlap"
    /\ build.th[k].pc = "sheets"
    /\ build.th[k].i > Len(source)
    /\ DATABASE_ROWS' = build.th[k].rows
    /\ SHEETS' = build.th[k].sheets
    /\ build' = [build EXCEPT !.th[k] = [pc |-> "done", req |-> build.th[k].req]]
    /\ request' = build.th[k].req
    /\ response' = [kind |-> "rebuild", status |-> "ok",
                    rows |-> Len(DATABASE_ROWS'), sheets |-> Len(SHEETS'),
                    links |-> Cardinality(DOMAIN LINK_POOL)]
    /\ UNCHANGED <<LINK_POOL, LINK_POOL_LIST, source>>
    /\ UNCHANGED limiter

\* The process after its start-up build, with two rebuild requests accepted.
InitOverlap ==
    /\ source \in WorkbooksOf({GridLinkInValue, GridLinkToSheet})
    /\ \E req \in RebuildRequests(Len(source), {"ok"}) :
          LET b == build_index(EmptyPool, <<>>, source, req)
          IN  /\ DATABASE_ROWS = b.rows
              /\ SHEETS = b.sheets
              /\ LINK_POOL = b.pool
              /\ LINK_POOL_LIST = b.list
    /\ build = [pc |-> "overlap", th |-> [k \in Workers |-> Waiting]]
    /\ request = [kind |-> "none"]
    /\ response = NoResponse
    /\ LimiterInit

NextOverlap ==
    \E k \in Workers : overlap_start(k) \/ overlap_sheet(k) \/ overlap_finish(k)

SpecOverlap == InitOverlap /\ [][NextOverlap]_vars

(***************************************************************************)
(* middleware/rate_limiter.py: requests of several clients pass one        *)
(* RateLimitMiddleware.  dispatch has no await between reading the time    *)
(* and appending it, so that part is one step of the event loop; call_next *)
(* is awaited, and other requests are dispatched while it runs.            *)
(***************************************************************************)
max_requests == 2

window_seconds == 2

MaxClock == 2

\* The headers and the peer of a request: X-Forwarded-For split at commas
\* (empty when the header is absent); request.client.host, or None.
HttpRequests ==
    [kind : {"http"},
     forwarded : {<<>>, <<" 10.0.0.1", "10.0.0.2">>},
     host : Peers]

\* forwarded.split(",")[0].strip() on the addresses of the model
StripIp(a) == IF a = " 10.0.0.1" THEN "10.0.0.1" ELSE a

client_ip(req) ==
    IF req.forwarded # <<>> THEN StripIp(req.forwarded[1])
    ELSE IF req.host # None THEN req.host
    ELSE "unknown"

\* A window test that lets a request age one second too early.
YoungerEarly(now, t, window) == now - t < window - 1

\* now - t < self.window_seconds
Younger(now, t, window) == now - t < window

\* [t for t in request_times if now - t < self.window_seconds]
CleanUp(request_times, now) ==
    SelectSeq(request_times, LAMBDA t : Younger(now, t, window_seconds))

\* RateLimitMiddleware.dispatch up to its first await
dispatch ==
    /\ \E req \in HttpRequests :
          LET ip == client_ip(req)
              now == clock
              kept == CleanUp(clients[ip], now)
          IN  /\ request' = req
              /\ IF Len(kept) >= max_requests
                 THEN /\ clients' = [clients EXCEPT ![ip] = kept]
                      /\ response' = [kind |-> "http", status |-> 429, client |-> ip]
                      /\ UNCHANGED <<forwarded, pending, sent>>
                 ELSE /\ clients' = [clients EXCEPT ![ip] = Append(kept, now)]
                      /\ forwarded' = [forwarded EXCEPT ![ip] = Append(@, now)]
                      /\ pending' = pending + 1
                      /\ sent' = [sent EXCEPT
                                    ![req.host] = Min2(@ + 1, max_requests)]
                      /\ response' = [kind |-> "http", status |-> 0, client |-> ip]
    /\ UNCHANGED <<DATABASE_ROWS, SHEETS, LINK_POOL, LINK_POOL_LIST, source, build,
                   clock>>

\* response = await call_next(request) returns
call_next ==
    /\ pending > 0
    /\ pending' = pending - 1
    /\ response' = [kind |-> "http", status |-> 200]
    /\ UNCHANGED <<DATABASE_ROWS, SHEETS, LINK_POOL, LINK_POOL_LIST, source, build,
                   request, clients, clock, forwarded, sent>>

\* time.time() advances
tick ==
    /\ clock < MaxClock
    /\ clock' = clock + 1
    /\ UNCHANGED <<DATABASE_ROWS, SHEETS, LINK_POOL, LINK_POOL_LIST, source, build,
                   request, response, clients, forwarded, pending, sent>>

InitLimiter ==
    /\ DATABASE_ROWS = <<>>
    /\ SHEETS = <<>>
    /\ LINK_POOL = EmptyPool
    /\ LINK_POOL_LIST = <<>>
    /\ source = <<>>
    /\ build = Idle
    /\ request = [kind |-> "none"]
    /\ response = NoResponse
    /\ LimiterInit

NextLimiter == dispatch \/ call_next \/ tick

SpecLimiter == InitLimiter /\ [][NextLimiter]_vars

(***************************************************************************)
(* Properties of the rebuild.                                              *)
(***************************************************************************)
\* The state is the one a build has just left: the startup hook or a rebuild
\* request was the last thing handled.
Rebuilt == request.kind = "startup" \/ response.kind = "rebuild"

NoDuplicateOccurrence(pool) ==
    \A u \in DOMAIN pool :
        \A i, j \in DOMAIN pool[u] :
            (pool[u][i].sheet = pool[u][j].sheet
             /\ pool[u][i].address = pool[u][j].address) => i = j

\* C1: after a single run of the rebuild, with or without the deep pass, no
\* two locations recorded under one URL of the registry map have the same
\* sheet and the same address.
C1_NoDuplicateOccurrence == Rebuilt => NoDuplicateOccurrence(LINK_POOL)

\* A rebuild with the deep pass over a sheet in which the primary pass and
\* the deep scan find the same link in the same cell.
C1_Witness ==
    /\ response.kind = "rebuild"
    /\ request.open
    /\ request.deep = "on"
    /\ \E i \in DOMAIN source :
          /\ request.reads[i] = "ok"
          /\ \E p \in Range(PrimaryVisits(source[i].values, source[i].formulas)),
                d \in Range(DeepScanSheet(source[i].rich)) :
                /\ p.url = d.url /\ p.row = d.row /\ p.col = d.col
                /\ ExistsAt(LINK_POOL, p.url, source[i].title, d.address)

\* The index a process builds from the workbook when it starts with empty
\* globals.
FreshBuild(worksheets, req) == build_index(EmptyPool, <<>>, worksheets, req)

\* C3: once a rebuild has completed, rows, titles, registry map and flat list
\* hold exactly what that rebuild produced from the current source; nothing
\* left by an earlier rebuild or added in between survives.
C3_FullReplace ==
    Rebuilt =>
        /\ DATABASE_ROWS = FreshBuild(source, request).rows
        /\ SHEETS = FreshBuild(source, request).sheets
        /\ LINK_POOL = FreshBuild(source, request).pool
        /\ LINK_POOL_LIST = FreshBuild(source, request).list

\* A rebuild that met a sheet it could not read, so that it produced fewer
\* links than the workbook holds, over a workbook with links.
C3_Witness ==
    /\ response.kind = "rebuild"
    /\ request.open
    /\ \E i \in DOMAIN source :
          /\ request.reads[i] = "values_fail"
          /\ PrimaryVisits(source[i].values, source[i].formulas) # <<>>
    /\ \A i \in DOMAIN LINK_POOL_LIST : LINK_POOL_LIST[i].sheet \in Range(SHEETS)

\* C4: when the source cannot be reached, the rebuild answers without raising
\* and leaves an empty index: no rows, no titles, an empty registry.
C4_UnreachableGivesEmpty ==
    (Rebuilt /\ ~request.open) =>
        /\ DATABASE_ROWS = <<>>
        /\ SHEETS = <<>>
        /\ DOMAIN LINK_POOL = {}
        /\ LINK_POOL_LIST = <<>>
        /\ response.kind = "rebuild" =>
              /\ response.ok
              /\ response.indexed_rows = 0
              /\ response.unique_urls = 0

\* A rebuild request answered while the source, a workbook with sheets, could
\* not be reached.
C4_Witness ==
    /\ response.kind = "rebuild"
    /\ ~request.open
    /\ source # <<>>
    /\ response.sheets = <<>>

\* The worksheets at the positions outside S, in order.
Without(worksheets, S) ==
    LET kept == SelectSeq([i \in DOMAIN worksheets |-> i], LAMBDA i : i \notin S)
    IN  [k \in DOMAIN kept |-> worksheets[kept[k]]]

\* The request of a rebuild that meets n readable sheets.
AllRead(req, n) == [req EXCEPT !.reads = [i \in 1..n |-> "ok"]]

\* The registry map and the flat list without the names resolved from gids.
PoolCore(pool) ==
    [u \in DOMAIN pool |->
        [i \in DOMAIN pool[u] |->
            [sheet |-> pool[u][i].sheet, row |-> pool[u][i].row,
             col |-> pool[u][i].col, address |-> pool[u][i].address]]]

ListCore(list) ==
    [i \in DOMAIN list |->
        [url |-> list[i].url, sheet |-> list[i].sheet, row |-> list[i].row,
         col |-> list[i].col, address |-> list[i].address]]

SameIndexAs(ref) ==
    /\ DATABASE_ROWS = ref.rows
    /\ PoolCore(LINK_POOL) = PoolCore(ref.pool)
    /\ ListCore(LINK_POOL_LIST) = ListCore(ref.list)

Readable(worksheets, reads) ==
    LET seen == [i \in DOMAIN worksheets |->
                    IF reads[i] = "formulas_fail"
                    THEN [worksheets[i] EXCEPT !.formulas = <<>>]
                    ELSE worksheets[i]]
    IN  Without(seen, {i \in DOMAIN worksheets : reads[i] = "values_fail"})

OffsetsOf(hay, needle) ==
    {i \in 0..(Len(hay) - Len(needle)) : \A j \in 1..Len(needle) : hay[i + j] = needle[j]}

SnippetText == fix_vietnamese_text(request.s)

SnippetOffsets ==
    OffsetsOf(fold_vietnamese(SnippetText), fold_vietnamese(request.q))

FirstSnippetOffset == CHOOSE i \in SnippetOffsets : \A k \in SnippetOffsets : i <= k

\* C11: when the folded query stands in the folded text at offset i, the
\* snippet is the fixed text from i - window to i + len(query) + window,
\* clipped to the text, so it holds the whole occurrence.
C11_SnippetSpansMatch ==
    (response.kind = "snippet" /\ SnippetOffsets # {}) =>
        response.text =
            Slice(SnippetText,
                  Max2(0, FirstSnippetOffset - request.window) + 1,
                  Min2(Len(SnippetText),
                       FirstSnippetOffset + Len(fold_vietnamese(request.q))
                           + request.window))

(***************************************************************************)
(* Properties of readers during a rebuild of backend.py.                   *)
(***************************************************************************)
\* The (rows, sheets, links) counts of the complete indexes the source can
\* give.
SnapshotCounts ==
    {<<Len(FreshBuild(source, req).rows), Len(FreshBuild(source, req).sheets),
       Cardinality(DOMAIN FreshBuild(source, req).pool)>> :
        req \in RebuildRequests(Len(source), {"ok", "values_fail"})}

\* C2: a reader that runs while a rebuild is underway sees a whole index:
\* the counts /health reports are those of one complete snapshot, rows and
\* registry of the same one.
C2_ReaderSeesWholeSnapshot ==
    response.kind = "health" =>
        <<response.rows, response.sheets, response.links>> \in SnapshotCounts

(***************************************************************************)
(* Properties of search.                                                   *)
(***************************************************************************)
Answered == request.kind = "search" /\ response.kind = "search"

Hits == response.hits

\* The position in the index of the row a hit refers to.
PosOfHit(h) ==
    CHOOSE i \in DOMAIN DATABASE_ROWS :
        DATABASE_ROWS[i].sheet = h.sheet /\ DATABASE_ROWS[i].row = h.row

\* The score of row i for the request, as the scoring rule of the
\* specification states it.
ScoreOfRow(i) ==
    LET nq == normalize_query(request.q)
        text_fixed == fix_vietnamese_text(DATABASE_ROWS[i].text)
    IN  RowScore(nq[1], nq[2], text_fixed, fold_vietnamese(text_fixed), request.exact)

Threshold == IF request.exact THEN 100 ELSE request.fuzz_threshold

IsHit(i) ==
    \E k \in DOMAIN Hits :
        Hits[k].sheet = DATABASE_ROWS[i].sheet /\ Hits[k].row = DATABASE_ROWS[i].row

\* C6 (as claimed): for every top_k the interface accepts (GET /search takes
\* any integer) the hit list is no longer than top_k; a negative top_k is
\* read as "no hit at all".
C6_AtMostTopK ==
    Answered => Len(Hits) <= Max2(request.top_k, 0)

\* C7: hits are ordered by score descending, and two hits of equal score
\* stand in the order their rows have in the index.
C7_SortedStable ==
    Answered =>
        \A i, j \in DOMAIN Hits :
            i < j => /\ Hits[i].score >= Hits[j].score
                     /\ Hits[i].score = Hits[j].score => PosOfHit(Hits[i]) < PosOfHit(Hits[j])

\* A hit list in which the sort moved a later row in front of an earlier one
\* and which holds two hits of equal score.
C7_Witness ==
    /\ Answered
    /\ \E i, j \in DOMAIN Hits :
          i < j /\ Hits[i].score > Hits[j].score /\ PosOfHit(Hits[i]) > PosOfHit(Hits[j])
    /\ \E i, j \in DOMAIN Hits : i < j /\ Hits[i].score = Hits[j].score

\* tok stands in text as a whole word: an occurrence that is not part of a
\* larger word (no word character right before it or right after it).
WholeWordIn(tok, text) ==
    \E i \in 0..(Len(text) - Len(tok)) :
        /\ \A j \in 1..Len(tok) : text[i + j] = tok[j]
        /\ ~WordAt(text, i)
        /\ ~WordAt(text, i + Len(tok) + 1)

\* C8 (as claimed): in exact mode a row is a hit if and only if every query
\* token of at least two characters stands in the row's folded text as a
\* whole word, and every hit has score 100.
C8_ExactIffWholeWords ==
    (Answered /\ request.exact /\ ~IsBlankQuery(request.q)
     /\ request.top_k >= Len(DATABASE_ROWS)) =>
        LET toks == _tokens(normalize_query(request.q)[2])
        IN  /\ \A i \in DOMAIN DATABASE_ROWS :
                  IsHit(i) <=>
                      \A k \in DOMAIN toks :
                          WholeWordIn(toks[k], fold_vietnamese(DATABASE_ROWS[i].text))
            /\ \A k \in DOMAIN Hits : Hits[k].score = 100

\* The text with its diacritics taken off and lower-cased, character by
\* character (what a user types "khong dau").
PlainChar(c) ==
    CASE c \in {"abreve", "Abreve", "A"} -> "a"
      [] c \in {"dstroke", "Dstroke", "D"} -> "d"
      [] c = "N" -> "n"
      [] OTHER -> c

Plain(s) == [i \in DOMAIN s |-> PlainChar(s[i])]

\* C9: in fuzzy mode a row whose repaired text contains the repaired query
\* case-insensitively, or whose folded text contains the folded query, is a
\* hit of score 100 whatever the threshold; so a query typed without
\* diacritics finds a row whose text carries them.
C9_FuzzyContainment ==
    (Answered /\ ~request.exact /\ ~IsBlankQuery(request.q) /\ request.top_k >= Len(DATABASE_ROWS)) =>
        \A i \in DOMAIN DATABASE_ROWS :
            LET nq == normalize_query(request.q)
                text == DATABASE_ROWS[i].text
                text_fixed == fix_vietnamese_text(text)
                scored100 == \E k \in DOMAIN Hits :
                                 /\ PosOfHit(Hits[k]) = i
                                 /\ Hits[k].score = 100
            IN  /\ (Contains(lower(text_fixed), lower(nq[1]))
                    \/ Contains(fold_vietnamese(text_fixed), nq[2])) => scored100
                /\ (request.q = Plain(request.q) /\ Contains(Plain(text), request.q))
                       => scored100

\* A fuzzy search at threshold 100 whose query has no diacritic and finds a
\* row that carries one, the accented text not containing the query.
C9_Witness ==
    /\ Answered /\ ~request.exact /\ request.fuzz_threshold = 100
    /\ \E k \in DOMAIN Hits :
          LET text == DATABASE_ROWS[PosOfHit(Hits[k])].text
          IN  /\ "abreve" \in Range(text)
              /\ ~Contains(lower(fix_vietnamese_text(text)), lower(request.q))
              /\ Contains(Plain(text), request.q)
              /\ Hits[k].score = 100

\* C10: every hit has a score of at least the threshold (100 in exact mode,
\* fuzz_threshold otherwise), and when top_k does not cut the list every row
\* whose score reaches the threshold is a hit.
C10_ThresholdFilter ==
    (Answered /\ ~IsBlankQuery(request.q)) =>
        /\ \A k \in DOMAIN Hits :
              /\ Hits[k].score >= Threshold
              /\ Hits[k].score = ScoreOfRow(PosOfHit(Hits[k]))
        /\ request.top_k >= Len(DATABASE_ROWS) =>
              \A i \in DOMAIN DATABASE_ROWS : ScoreOfRow(i) >= Threshold => IsHit(i)

\* A fuzzy search that keeps a row whose score equals the threshold exactly
\* and drops a row that scores below it.
C10_Witness ==
    /\ Answered /\ ~request.exact /\ request.top_k >= Len(DATABASE_ROWS)
    /\ request.fuzz_threshold > 0
    /\ \E i, j \in DOMAIN DATABASE_ROWS :
          /\ IsHit(i) /\ ScoreOfRow(i) = request.fuzz_threshold
          /\ ~IsHit(j) /\ ScoreOfRow(j) < request.fuzz_threshold

\* C12: for a non-blank query, in either mode and at every threshold, no hit
\* refers to a row that has no text.
C12_TextlessRowNeverHit ==
    (Answered /\ ~IsBlankQuery(request.q)) =>
        \A k \in DOMAIN Hits :
            fix_vietnamese_text(DATABASE_ROWS[PosOfHit(Hits[k])].text) # <<>>

\* C13: a query that is empty or made of whitespace only is answered with
\* the empty hit list, whatever the index holds.
C13_BlankQueryNoHits ==
    (Answered /\ \A i \in DOMAIN request.q : request.q[i] \in {" ", TAB, NBSP, "\n"}) =>
        Hits = <<>>

\* A query of whitespace characters answered over an index with rows, at a
\* threshold every row passes.
C13_Witness ==
    /\ Answered
    /\ request.q # <<>>
    /\ \A i \in DOMAIN request.q : request.q[i] \in {" ", TAB, NBSP, "\n"}
    /\ DATABASE_ROWS # <<>>
    /\ request.fuzz_threshold = 0
    /\ request.top_k > 0
    /\ Hits = <<>>

(***************************************************************************)
(* Properties of the extractors.                                           *)
(***************************************************************************)
\* The candidates of the cell in the order the extractor discovers them:
\* the URLs of the value, the HYPERLINK argument, the URLs of the formula.
Candidates ==
    IF request.kind = "extract"
    THEN request.val.urls
         \o [i \in DOMAIN request.formula.hyper |->
                IF request.formula.hyper[i].scheme = ""
                   /\ request.formula.hyper[i].kind \in {"docs", "sheets"}
                THEN [request.formula.hyper[i] EXCEPT !.scheme = "http"]
                ELSE request.formula.hyper[i]]
         \o request.formula.urls
    ELSE request.urls

Trimmed(u) == [u EXCEPT !.trail = ""]

BaseForm(u) == [Trimmed(u) EXCEPT !.sfx = ""]

\* Candidate k starts with http and no earlier such candidate has its base.
FirstOfBase(k) ==
    /\ Candidates[k].scheme = "http"
    /\ \A j \in 1..(k - 1) :
          Candidates[j].scheme = "http" => BaseForm(Candidates[j]) # BaseForm(Candidates[k])

\* C14: the URLs extracted from a cell are, in discovery order, the trimmed
\* candidates that start with http and are the first of their base form; no
\* two of them have the same base form.
C14_FirstOfEachBase ==
    response.kind = "extract" =>
        LET out == response.urls
            kept == SelectSeq([k \in DOMAIN Candidates |-> k], FirstOfBase)
        IN  /\ out = [i \in DOMAIN kept |-> Trimmed(Candidates[kept[i]])]
            /\ \A i, j \in DOMAIN out : BaseForm(out[i]) = BaseForm(out[j]) => i = j
            /\ \A i \in DOMAIN out : out[i].scheme = "http"

\* A cell whose candidates hold two URLs of one base with different queries,
\* the first of which was returned and the second dropped.
C14_Witness ==
    /\ response.kind = "extract"
    /\ \E j, k \in DOMAIN Candidates :
          /\ j < k
          /\ Candidates[j] # Candidates[k]
          /\ Candidates[j].sfx # Candidates[k].sfx
          /\ Candidates[j].scheme = "http" /\ Candidates[k].scheme = "http"
          /\ BaseForm(Candidates[j]) = BaseForm(Candidates[k])
          /\ Trimmed(Candidates[j]) \in Range(response.urls)
          /\ Trimmed(Candidates[k]) \notin Range(response.urls)

(***************************************************************************)
(* Properties of search after a rebuild.                                   *)
(***************************************************************************)
\* C15: a rebuild from a source that reports zero sheets answers with no
\* rows and no URLs, and every search made afterwards returns the empty
\* list, for any query, mode and threshold.
C15_ZeroSheets ==
    (source = <<>> /\ build.pc = "idle") =>
        /\ (response.kind = "rebuild" /\ request.open) =>
              /\ response.ok
              /\ response.indexed_rows = 0
              /\ response.unique_urls = 0
              /\ response.sheets = <<>>
        /\ Answered => Hits = <<>>

\* A search for a query with text, at a threshold every row passes, after a
\* build from a workbook without sheets and after a manual link was added.
C15_Witness ==
    /\ source = <<>>
    /\ build.pc = "idle"
    /\ Answered
    /\ ~IsBlankQuery(request.q)
    /\ request.fuzz_threshold = 0
    /\ LINK_POOL_LIST # <<>>
    /\ Hits = <<>>

(***************************************************************************)
(* Properties of fold_vietnamese                                           *)
(***************************************************************************)
\* C16: fold is idempotent: whatever the input string, folding the folded
\* string gives the folded string again.
C16_FoldIdempotent ==
    response.kind = "fold_again" => response.twice = response.once

(***************************************************************************)
(* Properties of the endpoints between two rebuilds                        *)
(***************************************************************************)
\* C17: no operation other than a rebuild changes the index snapshot: a
\* step that answers a search, a link request or any other request that is
\* not a rebuild leaves the rows, the registry map and the flat link list
\* as they were.
C17_OnlyRebuildChangesSnapshot ==
    [][request'.kind \notin {"rebuild", "startup"} =>
          UNCHANGED <<DATABASE_ROWS, LINK_POOL, LINK_POOL_LIST>>]_vars

(***************************************************************************)
(* Properties of the rate limiter                                          *)
(***************************************************************************)
\* The requests of client c forwarded less than window_seconds before now.
YoungForwarded(c, now) ==
    {j \in DOMAIN forwarded[c] :
        forwarded[c][j] <= now /\ now - forwarded[c][j] < window_seconds}

\* C18: the middleware never forwards more than max_requests requests of one
\* client within a sliding window of window_seconds, and a request arriving
\* while its client has max_requests forwarded requests younger than
\* window_seconds is not passed on, whatever else is in flight.
C18_AtMostMaxPerWindow ==
    /\ [](\A c \in ClientKeys : \A i \in DOMAIN forwarded[c] :
            Cardinality(YoungForwarded(c, forwarded[c][i])) <= max_requests)
    /\ [][\A c \in ClientKeys :
            Cardinality(YoungForwarded(c, clock)) >= max_requests =>
                /\ forwarded'[c] = forwarded[c]
                /\ (clock' = clock /\ pending' = pending /\ client_ip(request') = c) =>
                       response'.status = 429]_vars

\* A request is refused while earlier requests are still inside the
\* application and after the clock has advanced past a full window.
C18_Witness ==
    /\ response.kind = "http"
    /\ response.status = 429
    /\ pending >= max_requests
    /\ clock >= window_seconds
    /\ Len(forwarded[response.client]) > max_requests

(***************************************************************************)
(* Properties of the row records of a rebuild                              *)
(***************************************************************************)
\* The URLs the registry holds at row r of sheet S.
UrlsAt(S, r) ==
    {u \in DOMAIN LINK_POOL :
        \E i \in DOMAIN LINK_POOL[u] :
            LINK_POOL[u][i].sheet = S /\ LINK_POOL[u][i].row = r}

\* C19: after a rebuild, every URL extracted from a cell of row r of sheet S,
\* by the primary or by the deep pass, is in the link list of the row record
\* of sheet S and row r and in the link list of no other row record, also
\* when fully blank rows stand above row r.
C19_LinksOnOwningRow ==
    Rebuilt =>
        \A k \in DOMAIN DATABASE_ROWS :
            Range(DATABASE_ROWS[k].links) =
                UrlsAt(DATABASE_ROWS[k].sheet, DATABASE_ROWS[k].row)

\* C20: a sheet the rebuild failed to read and skipped contributes nothing to
\* the result: no row record, no registry occurrence, no flat link record
\* and no entry in the list of sheet titles.
C20_SkippedSheetLeavesNothing ==
    (Rebuilt /\ request.open) =>
        \A i \in DOMAIN source :
            request.reads[i] = "values_fail" =>
                /\ \A k \in DOMAIN DATABASE_ROWS :
                        DATABASE_ROWS[k].sheet # source[i].title
                /\ \A u \in DOMAIN LINK_POOL : \A j \in DOMAIN LINK_POOL[u] :
                        LINK_POOL[u][j].sheet # source[i].title
                /\ \A j \in DOMAIN LINK_POOL_LIST :
                        LINK_POOL_LIST[j].sheet # source[i].title
                /\ source[i].title \notin Range(SHEETS)

(***************************************************************************)
(* Properties of the resolved sheet names                                  *)
(***************************************************************************)
\* C21: after a rebuild, an occurrence of a spreadsheet link that carries the
\* identifier of a worksheet W of the workbook has W's title as its resolved
\* sheet name, whatever the identifier, 0 included.
C21_GidResolvesToTitle ==
    (Rebuilt /\ request.open) =>
        \A u \in DOMAIN LINK_POOL : \A j \in DOMAIN LINK_POOL[u] :
            \A i \in DOMAIN source :
                classify_google_url(u)[3] = StrOfGid(source[i].sheetId) =>
                    LINK_POOL[u][j].sheet_name = source[i].title

(***************************************************************************)
(* Properties of cell values that are no strings                           *)
(***************************************************************************)
\* The workbook with every value that is no string replaced by the empty
\* string.
Blanked(worksheets) ==
    [i \in DOMAIN worksheets |->
        [worksheets[i] EXCEPT
            !.values = [r \in DOMAIN @ |->
                          [c \in DOMAIN @[r] |->
                              IF IsStr(@[r][c]) THEN @[r][c] ELSE EmptyValue]]]]

\* C22: a cell value that is not text-like never makes the build fail; the
\* rows, their texts and the links of the index are those of the workbook in
\* which such values are empty strings.
C22_NonTextIsEmpty ==
    request.kind \in {"startup", "rebuild"} =>
        /\ response.kind # "error"
        /\ SameIndexAs(FreshBuild(Blanked(source), request))

(***************************************************************************)
(* Properties of the row records                                           *)
(***************************************************************************)
\* The positions of the row records of row r of the sheet with this title.
RecordsOf(title, r) ==
    {k \in DOMAIN DATABASE_ROWS :
        DATABASE_ROWS[k].sheet = title /\ DATABASE_ROWS[k].row = r}

\* C23: after a rebuild, each row of each sheet that was read has exactly one
\* row record when one of its cells is non-blank after trimming, and none
\* when all of its cells are blank.
C23_OneRecordPerNonBlankRow ==
    (Rebuilt /\ request.open) =>
        \A i \in DOMAIN source :
            request.reads[i] # "values_fail" =>
                \A r \in DOMAIN source[i].values :
                    Cardinality(RecordsOf(source[i].title, r)) =
                        IF \E c \in DOMAIN source[i].values[r] :
                               strip(CellString(source[i].values[r][c])) # <<>>
                        THEN 1 ELSE 0

\* A rebuild that read a sheet with a blank row above a row with text.
C23_Witness ==
    /\ response.kind = "rebuild"
    /\ request.open
    /\ \E i \in DOMAIN source :
          /\ request.reads[i] # "values_fail"
          /\ Len(source[i].values) = 2
          /\ RecordsOf(source[i].title, 1) = {}
          /\ RecordsOf(source[i].title, 2) # {}

(***************************************************************************)
(* Properties of the deep pass                                             *)
(***************************************************************************)
\* The registry map the same build gives without the deep pass.
PrimaryPool == FreshBuild(source, [request EXCEPT !.deep = "off"]).pool

\* The occurrences of u the deep pass added.
AddedByDeep(u) ==
    {j \in DOMAIN LINK_POOL[u] :
        u \notin DOMAIN PrimaryPool \/ LINK_POOL[u][j] \notin Range(PrimaryPool[u])}

\* C24: the deep pass only adds to the registry: the occurrences of the
\* primary pass are all there after it, unchanged and in their order, and an
\* occurrence was added only for a (url, sheet, address) that no other
\* occurrence has.
C24_DeepOnlyAdds ==
    (Rebuilt /\ request.open /\ request.deep = "on") =>
        /\ \A u \in DOMAIN PrimaryPool :
              /\ u \in DOMAIN LINK_POOL
              /\ SelectSeq(LINK_POOL[u], LAMBDA loc : loc \in Range(PrimaryPool[u]))
                    = PrimaryPool[u]
        /\ \A u \in DOMAIN LINK_POOL : \A j \in AddedByDeep(u) :
              \A k \in DOMAIN LINK_POOL[u] \ {j} :
                  ~(/\ LINK_POOL[u][k].sheet = LINK_POOL[u][j].sheet
                    /\ LINK_POOL[u][k].address = LINK_POOL[u][j].address)

\* A rebuild whose deep pass found a link the primary pass had recorded and
\* added an occurrence of another link.
C24_Witness ==
    /\ response.kind = "rebuild"
    /\ request.open
    /\ request.deep = "on"
    /\ PrimaryPool # EmptyPool
    /\ \E u \in DOMAIN LINK_POOL : AddedByDeep(u) # {}

\* C25: rate limiting is per client: a request is refused only on account
\* of the earlier requests of the peer that sent it, so a peer of which fewer
\* than max_requests requests were ever forwarded is not refused, whatever
\* other peers have sent.
C25_OutcomeIsOwn ==
    [][(clock' = clock /\ pending' = pending /\ response'.status = 429) =>
          sent[request'.host] >= max_requests]_vars

(***************************************************************************)
(* Properties of the two link pools                                        *)
(***************************************************************************)
\* The (url, sheet, address) locations of the registry map.
MapOccurrences ==
    UNION {{<<u, LINK_POOL[u][j].sheet, LINK_POOL[u][j].address>> :
                j \in DOMAIN LINK_POOL[u]} : u \in DOMAIN LINK_POOL}

\* The (url, sheet, address) of the record at position j of the flat list.
ListOccurrence(j) ==
    <<LINK_POOL_LIST[j].url, LINK_POOL_LIST[j].sheet, LINK_POOL_LIST[j].address>>

\* C26: after a rebuild the flat list holds exactly one record for each
\* (url, sheet, address) of the registry map and no record the map lacks,
\* also when one URL stands at the same address of two sheets.
C26_ListMatchesMap ==
    Rebuilt =>
        /\ {ListOccurrence(j) : j \in DOMAIN LINK_POOL_LIST} = MapOccurrences
        /\ \A j, k \in DOMAIN LINK_POOL_LIST :
              ListOccurrence(j) = ListOccurrence(k) => j = k

(***************************************************************************)
(* Properties of overlapping rebuilds of backend.py                        *)
(***************************************************************************)
\* C27: when two rebuild requests have both finished, the registry map and
\* the flat list, together with the published rows, are what one of the two
\* rebuilds produces alone from the source: nothing twice, nothing missing.
C27_OverlapEqualsOneRebuild ==
    (build.pc = "overlap" /\ \A k \in Workers : build.th[k].pc = "done") =>
        \E k \in Workers :
            LET alone == FreshBuild(source, build.th[k].req)
            IN  /\ LINK_POOL = alone.pool
                /\ LINK_POOL_LIST = alone.list
                /\ DATABASE_ROWS = alone.rows


\* C28: in exact mode, for a non-blank query, the folded text of every hit's
\* row contains at least one whitespace-separated piece of the folded query
\* as a whole word; pieces shorter than two characters count as well.
C28_ExactHitContainsQuery ==
    (Answered /\ request.exact /\ ~IsBlankQuery(request.q)) =>
        LET pieces == SplitWS(normalize_query(request.q)[2], <<>>)
        IN  \A k \in DOMAIN Hits :
                LET text_fold ==
                        fold_vietnamese(
                            fix_vietnamese_text(DATABASE_ROWS[PosOfHit(Hits[k])].text))
                IN  \E p \in DOMAIN pieces :
                        \/ WholeWordIn(pieces[p], text_fold)
                        \/ SearchWord(pieces[p], text_fold)

\* The occurrences of the registry as (url, position) pairs.
Occurrences ==
    UNION {{<<u, j>> : j \in DOMAIN LINK_POOL[u]} : u \in DOMAIN LINK_POOL}

\* C29: after a rebuild with the deep pass, no cell (sheet, address) has two
\* occurrences in the registry whose URLs have the same base, also when the
\* primary pass and the deep scan saw the link through different sources of
\* the cell.
C29_OneOccurrencePerBase ==
    (Rebuilt /\ request.open /\ request.deep = "on") =>
        \A o1, o2 \in Occurrences :
            (/\ o1 # o2
             /\ UrlBase(o1[1]) = UrlBase(o2[1])
             /\ LINK_POOL[o1[1]][o1[2]].sheet = LINK_POOL[o2[1]][o2[2]].sheet)
                => LINK_POOL[o1[1]][o1[2]].address # LINK_POOL[o2[1]][o2[2]].address

(***************************************************************************)
(* Properties of the address label                                         *)
(***************************************************************************)
\* The position of a character in an alphabet, 0 when it is not in it.
IndexIn(alphabet, ch) ==
    IF \E i \in DOMAIN alphabet : alphabet[i] = ch
    THEN CHOOSE i \in DOMAIN alphabet : alphabet[i] = ch
    ELSE 0

\* The leading letters of an address and what follows them.
RECURSIVE LettersOf(_)
LettersOf(a) ==
    IF a # <<>> /\ IndexIn(COL_LETTERS, a[1]) > 0
    THEN <<a[1]>> \o LettersOf(Tail(a))
    ELSE <<>>

AfterLetters(a) == SubSeq(a, Len(LettersOf(a)) + 1, Len(a))

\* The number a label of letters denotes in bijective base 26 (A = 1 ..
\* Z = 26, no zero digit).
RECURSIVE Bijective26(_)
Bijective26(label) ==
    IF label = <<>> THEN 0
    ELSE 26 * Bijective26(SubSeq(label, 1, Len(label) - 1))
         + IndexIn(COL_LETTERS, label[Len(label)])

\* The number a string of decimal digits denotes.
RECURSIVE DecimalValue(_)
DecimalValue(ds) ==
    IF ds = <<>> THEN 0
    ELSE 10 * DecimalValue(SubSeq(ds, 1, Len(ds) - 1))
         + (IndexIn(DIGITS, ds[Len(ds)]) - 1)

\* C30: for every row >= 1 and column >= 1 the address is the column in
\* bijective base 26 with the letters A..Z followed by the row in decimal,
\* and two different cells of a sheet never get the same address.
C30_AddressInjective ==
    response.kind = "address" =>
        /\ LettersOf(response.a1) # <<>>
        /\ Bijective26(LettersOf(response.a1)) = request.cell[2]
        /\ AfterLetters(response.a1) # <<>>
        /\ \A i \in DOMAIN AfterLetters(response.a1) :
              IndexIn(DIGITS, AfterLetters(response.a1)[i]) > 0
        /\ AfterLetters(response.a1)[1] # "0"
        /\ DecimalValue(AfterLetters(response.a1)) = request.cell[1]
        /\ (request.cell[2] = 1 => LettersOf(response.a1) = <<"A">>)
        /\ (request.cell[2] = 26 => LettersOf(response.a1) = <<"Z">>)
        /\ (request.cell[2] = 27 => LettersOf(response.a1) = <<"A", "A">>)
        /\ (request.cell # request.other => response.a1 # response.other)

\* Two cells labelled of which one lies beyond column Z in the same row as
\* the other, whose column is the last letter of the first: AA1 and A1.
C30_Witness ==
    /\ response.kind = "address"
    /\ request.cell[1] = request.other[1]
    /\ request.cell[2] = 27
    /\ request.other[2] = 1
    /\ response.a1 = <<"A", "A", "1">>
    /\ response.other = <<"A", "1">>

====
